---- MODULE Spec2Model ----
(***************************************************************************)
(* Verification model of the self-correcting query pipeline of             *)
(* database-guru: the retry orchestrator (SelfCorrectingSQLAgent), the     *)
(* error diagnostics, the schema-aware fixer with its fuzzy matcher and    *)
(* the SQL executor's timeout handling.                                    *)
(*                                                                         *)
(* Texts (SQL and error messages) are sequences of word tokens; a name's   *)
(* spelling is a sequence of characters (Spelling), so that the similarity *)
(* ratio is computed, not assumed.  Whitespace between tokens is implicit; *)
(* a quote, a colon or a semicolon is a token of its own.                  *)
(***************************************************************************)
EXTENDS Integers, Sequences, FiniteSets, TLC

\* ------------------------------------------------------------------------
\* Bounds of the model
\* ------------------------------------------------------------------------

\* most rows the table of learned corrections grows to
MaxCorrections == 2

\* most calls that write the table in one behaviour of the learner
MaxLearnerCalls == 2

\* largest max_retries an agent is constructed with (the default is 3)
MaxRetriesBound == 3

\* the largest max_retries of the paired calls of the two entry points
PairRetriesBound == 2

\* most rows of a query result handed to the verifier
MaxRows == 2

\* ------------------------------------------------------------------------
\* Tokens, names and their spelling
\* ------------------------------------------------------------------------

Quote == "\""

\* tokens that do not match [a-zA-Z_][a-zA-Z0-9_]*
NonIdentTokens ==
  {Quote, ":", ";", "!", "*", "30", "'gen_result'", "  ", ",~", ","}

IsIdent(tok) == tok \notin NonIdentTokens

\* characters of every name the fuzzy matcher can be given
Spelling ==
  [ products |-> <<"p","r","o","d","u","c","t","s">>,
    prodcuts |-> <<"p","r","o","d","c","u","t","s">>,
    orders   |-> <<"o","r","d","e","r","s">>,
    prod     |-> <<"p","r","o","d">>,
    with     |-> <<"w","i","t","h">>,
    id       |-> <<"i","d">>,
    price    |-> <<"p","r","i","c","e">>,
    pric     |-> <<"p","r","i","c">>,
    total    |-> <<"t","o","t","a","l">>,
    tide     |-> <<"t","i","d","e">>,
    diet     |-> <<"d","i","e","t">> ]

SpelledNames ==
  {"products", "prodcuts", "orders", "prod", "with", "id", "price", "pric",
   "total", "tide", "diet"}

\* str.lower() of a token; every token of the model is lower-case already
\* except the ones listed here
Lower(tok) ==
  CASE tok = "Products" -> "products"
    [] tok = "PRODCUTS" -> "prodcuts"
    [] tok = "FROM" -> "from"
    [] tok = "JOIN" -> "join"
    [] OTHER -> tok

LowerText(text) == [i \in 1..Len(text) |-> Lower(text[i])]

\* ------------------------------------------------------------------------
\* FuzzyMatcher (difflib.SequenceMatcher ratio = 2*M/T)
\* ------------------------------------------------------------------------

\* the element of a one-element set: Only({F(x) : x \in {e}}) is F(e) with
\* e evaluated once
Only(S) == CHOOSE x \in S : TRUE

\* length of the common run of a and b starting at a[i], b[j], inside
\* a[..ahi], b[..bhi]
RECURSIVE RunLen(_, _, _, _, _, _)
RunLen(a, i, ahi, b, j, bhi) ==
  IF i > ahi \/ j > bhi \/ a[i] # b[j] THEN 0
  ELSE 1 + RunLen(a, i + 1, ahi, b, j + 1, bhi)

\* find_longest_match: the longest block, of those the one starting
\* earliest in a, of those the one starting earliest in b
LongestMatch(a, alo, ahi, b, blo, bhi) ==
  LET cands == {<<i, j>> \in (alo..ahi) \X (blo..bhi) : TRUE}
      len(p) == RunLen(a, p[1], ahi, b, p[2], bhi)
      best == CHOOSE p \in cands :
                \A q \in cands :
                   \/ len(p) > len(q)
                   \/ /\ len(p) = len(q)
                      /\ \/ p[1] < q[1]
                         \/ (p[1] = q[1] /\ p[2] <= q[2])
  IN  <<best[1], best[2], len(best)>>

\* get_matching_blocks: total size of the blocks found by recursing to the
\* left and to the right of the longest match
RECURSIVE MatchCount(_, _, _, _, _, _)
MatchCount(a, alo, ahi, b, blo, bhi) ==
  IF alo > ahi \/ blo > bhi THEN 0
  ELSE LET Blocks(m) ==
             IF m[3] = 0 THEN 0
             ELSE m[3]
                  + MatchCount(a, alo, m[1] - 1, b, blo, m[2] - 1)
                  + MatchCount(a, m[1] + m[3], ahi, b, m[2] + m[3], bhi)
       IN  Only({Blocks(m) : m \in {LongestMatch(a, alo, ahi, b, blo, bhi)}})

\* similarity(a, b) as the fraction num/den (den = 0 for two empty strings,
\* which SequenceMatcher scores 1.0)
SimilarityOf(a, b) ==
  LET sa == Spelling[Lower(a)]
      sb == Spelling[Lower(b)]
  IN  [num |-> 2 * MatchCount(sa, 1, Len(sa), sb, 1, Len(sb)),
       den |-> Len(sa) + Len(sb)]

SimilarityTable ==
  [p \in SpelledNames \X SpelledNames |-> SimilarityOf(p[1], p[2])]

similarity(a, b) == SimilarityTable[<<Lower(a), Lower(b)>>]

\* score >= n/10
ScoreAtLeast(score, tenths) == 10 * score.num >= tenths * score.den

\* s1 > s2
ScoreGreater(s1, s2) == s1.num * s2.den > s2.num * s1.den

\* ------------------------------------------------------------------------
\* Error texts and SQL texts of the model
\* ------------------------------------------------------------------------

\* the absent value (None) of an optional text, and of an optional name
NoText == <<>>
NoName == ""

\* PostgreSQL: relation "prodcuts" does not exist
ErrRelation == <<"relation", Quote, "prodcuts", Quote, "does", "not", "exist">>
\* DuckDB: Catalog Error: Table with name prodcuts does not exist!
ErrDuckDB ==
  <<"catalog", "error", ":", "table", "with", "name", "prodcuts", "does",
    "not", "exist", "!">>
\* SQLite: no such column: pric
ErrNoColumn == <<"no", "such", "column", ":", "pric">>
\* a syntax error reported by the database
ErrSyntax == <<"syntax", "error", "at", "end", "of", "input">>
\* executor.py:109, with timeout_seconds = 30
ErrTimeout == <<"query", "timeout", "after", "30", "seconds">>
\* str(e) of an exception raised by a collaborator
ExcConnection == <<"connection", "refused">>
\* str(e) of a timeout raised by the call of the language model
ExcTimedOut == <<"request", "timed", "out">>

\* the text of the exception of a failed store of the learner
ExcLocked == <<"database", "is", "locked">>
\* str(e) of the UnboundLocalError raised by reading gen_result
ExcUnbound ==
  <<"cannot", "access", "local", "variable", "'gen_result'", "where", "it",
    "is", "not", "associated", "with", "a", "value">>

\* sql = None
NoneSql == <<"None">>
SqlTypo == <<"select", "*", "from", "prodcuts">>
SqlGood == <<"select", "*", "from", "products">>
SqlPric == <<"select", "pric", "from", "products">>

\* text contains the keyword (a sequence of words) as a substring
Contains(text, kw) ==
  \E i \in 1..(Len(text) - Len(kw) + 1) :
     SubSeq(text, i, i + Len(kw) - 1) = kw

ContainsAny(text, kws) == \E kw \in kws : Contains(text, kw)

\* ------------------------------------------------------------------------
\* ErrorDiagnostics
\* ------------------------------------------------------------------------

SYNTAX_ERROR == "syntax_error"
TABLE_NOT_FOUND == "table_not_found"
COLUMN_NOT_FOUND == "column_not_found"
TYPE_MISMATCH == "type_mismatch"
PERMISSION_DENIED == "permission_denied"
TIMEOUT == "timeout"
UNKNOWN == "unknown"

ErrorType ==
  {SYNTAX_ERROR, TABLE_NOT_FOUND, COLUMN_NOT_FOUND, TYPE_MISMATCH,
   PERMISSION_DENIED, TIMEOUT, UNKNOWN}

\* the checks of categorize_error with the column keywords tried before
\* the table keywords
categorize_column_first(error_message) ==
  LET error_lower == LowerText(error_message)
  IN  IF ContainsAny(error_lower,
           {<<"syntax", "error">>, <<"syntax">>, <<"parse", "error">>,
            <<"unexpected">>})
        THEN SYNTAX_ERROR
      ELSE IF ContainsAny(error_lower,
           {<<"column">>, <<"field">>, <<"unknown", "column">>,
            <<"no", "such", "column">>})
        THEN COLUMN_NOT_FOUND
      ELSE IF ContainsAny(error_lower,
           {<<"table">>, <<"relation">>, <<"does", "not", "exist">>,
            <<"no", "such", "table">>})
        THEN TABLE_NOT_FOUND
      ELSE UNKNOWN

categorize_error(error_message) ==
  LET error_lower == LowerText(error_message)
  IN  IF ContainsAny(error_lower,
           {<<"syntax", "error">>, <<"syntax">>, <<"parse", "error">>,
            <<"unexpected">>})
        THEN SYNTAX_ERROR
      ELSE IF ContainsAny(error_lower,
           {<<"table">>, <<"relation">>, <<"does", "not", "exist">>,
            <<"no", "such", "table">>})
        THEN TABLE_NOT_FOUND
      ELSE IF ContainsAny(error_lower,
           {<<"column">>, <<"field">>, <<"unknown", "column">>,
            <<"no", "such", "column">>})
        THEN COLUMN_NOT_FOUND
      ELSE IF ContainsAny(error_lower,
           {<<"type">>, <<"cast">>, <<"conversion">>, <<"incompatible">>})
        THEN TYPE_MISMATCH
      ELSE IF ContainsAny(error_lower,
           {<<"permission">>, <<"denied">>, <<"access">>, <<"unauthorized">>})
        THEN PERMISSION_DENIED
      ELSE IF ContainsAny(error_lower,
           {<<"timeout">>, <<"timed", "out">>, <<"exceeded">>})
        THEN TIMEOUT
      ELSE UNKNOWN

\* first index after i that is not a quote (the regex part ["\s]+)
RECURSIVE SkipQuotes(_, _)
SkipQuotes(text, j) ==
  IF j <= Len(text) /\ text[j] = Quote THEN SkipQuotes(text, j + 1) ELSE j

\* re.search(kw + '["\s]+([a-z_][a-z0-9_]*)', text): the identifier that
\* follows the leftmost occurrence of kw that has one, or NoName
SearchAfterKeyword(text, kw) ==
  LET hits == {i \in 1..Len(text) :
                 /\ Lower(text[i]) = kw
                 /\ SkipQuotes(text, i + 1) <= Len(text)
                 /\ IsIdent(text[SkipQuotes(text, i + 1)])}
  IN  IF hits = {} THEN NoName
      ELSE LET i == CHOOSE h \in hits : \A g \in hits : h <= g
           IN  text[SkipQuotes(text, i + 1)]

\* re.search(kw + '\s+([a-zA-Z_][a-zA-Z0-9_]*)', text, IGNORECASE)
SearchAfterWord(text, kw) ==
  LET hits == {i \in 1..(Len(text) - 1) :
                 Lower(text[i]) = kw /\ IsIdent(text[i + 1])}
  IN  IF hits = {} THEN NoName
      ELSE LET i == CHOOSE h \in hits : \A g \in hits : h <= g
           IN  text[i + 1]

\* re.search('no such ' + kw + ':\s*([a-z_][a-z0-9_]*)', text)
SearchNoSuch(text, kw) ==
  LET hits == {i \in 1..(Len(text) - 4) :
                 /\ Lower(text[i]) = "no"
                 /\ Lower(text[i + 1]) = "such"
                 /\ Lower(text[i + 2]) = kw
                 /\ text[i + 3] = ":"
                 /\ IsIdent(text[i + 4])}
  IN  IF hits = {} THEN NoName
      ELSE LET i == CHOOSE h \in hits : \A g \in hits : h <= g
           IN  text[i + 4]

\* re.search('"([a-zA-Z_][a-zA-Z0-9_]*)".*does not exist', text)
SearchQuotedDoesNotExist(text) ==
  LET hits == {i \in 1..(Len(text) - 2) :
                 /\ text[i] = Quote
                 /\ IsIdent(text[i + 1])
                 /\ text[i + 2] = Quote
                 /\ \E j \in (i + 3)..(Len(text) - 2) :
                       /\ Lower(text[j]) = "does"
                       /\ Lower(text[j + 1]) = "not"
                       /\ Lower(text[j + 2]) = "exist"}
  IN  IF hits = {} THEN NoName
      ELSE LET i == CHOOSE h \in hits : \A g \in hits : h <= g
           IN  text[i + 1]

\* the context map: an absent key is NoName
extract_error_context(error_message, error_type) ==
  LET error_lower == LowerText(error_message)
  IN  [error_type |-> error_type,
       raw_error |-> error_message,
       missing_table |->
          IF error_type = TABLE_NOT_FOUND
            THEN SearchAfterKeyword(error_lower, "table") ELSE NoName,
       missing_column |->
          IF error_type = COLUMN_NOT_FOUND
            THEN SearchAfterKeyword(error_lower, "column") ELSE NoName]

\* the hint lines, each a text
generate_fix_hints(error_type, context) ==
  IF error_type = TABLE_NOT_FOUND THEN
       <<<<"Check the schema for the correct table name.">>,
         <<"Table names may be case-sensitive.">>>>
       \o (IF context.missing_table # NoName
             THEN <<<<"Could not find table:", context.missing_table>>>>
             ELSE <<>>)
  ELSE IF error_type = COLUMN_NOT_FOUND THEN
       <<<<"Check the schema for the correct column name.">>,
         <<"Make sure you're referencing the right table.">>>>
       \o (IF context.missing_column # NoName
             THEN <<<<"Could not find column:", context.missing_column>>>>
             ELSE <<>>)
  ELSE IF error_type = SYNTAX_ERROR THEN
       <<<<"Check for missing commas, parentheses, or keywords.">>,
         <<"Verify SQL syntax is correct for the database type.">>>>
  ELSE IF error_type = TYPE_MISMATCH THEN
       <<<<"Check data types in comparisons and operations.">>,
         <<"You may need to cast values to the correct type.">>>>
  ELSE <<>>

\* ------------------------------------------------------------------------
\* Schema snapshots
\* ------------------------------------------------------------------------

\* a schema the caller passes as JSON text or as a mapping
SchemaShop ==
  [parsable |-> TRUE,
   tables |-> <<"products", "orders">>,
   columns |-> [products |-> <<"id", "price">>, orders |-> <<"id", "total">>]]

\* the same schema given as free text ("Table: products\n  - id (INTEGER)"),
\* as format_schema_for_llm produces it: json.loads fails on it
SchemaFreeText == [SchemaShop EXCEPT !.parsable = FALSE]

\* self.schema_fixer = None
NoFixer ==
  [present |-> FALSE, table_names |-> <<>>,
   columns_by_table |-> [none |-> <<>>], all_columns |-> <<>>]

RECURSIVE Dedup(_)
Dedup(seq) ==
  IF seq = <<>> THEN <<>>
  ELSE LET rest == Dedup(SubSeq(seq, 1, Len(seq) - 1))
           x == seq[Len(seq)]
       IN  IF \E i \in 1..Len(rest) : rest[i] = x THEN rest
           ELSE Append(rest, x)

RECURSIVE Flatten(_, _)
Flatten(schema, n) ==
  IF n = 0 THEN <<>>
  ELSE Flatten(schema, n - 1) \o schema.columns[schema.tables[n]]

\* SchemaAwareFixer.__init__ / _build_lookup_caches.  all_columns is
\* list(set(...)): the model keeps the order of first occurrence
SchemaAwareFixer(schema) ==
  [present |-> TRUE,
   table_names |-> schema.tables,
   columns_by_table |-> schema.columns,
   all_columns |-> Dedup(Flatten(schema, Len(schema.tables)))]

\* ------------------------------------------------------------------------
\* FuzzyMatcher.find_closest / find_best_match
\* ------------------------------------------------------------------------

NoMatch == [name |-> NoName, score |-> [num |-> 0, den |-> 1]]

\* the candidates at or above the threshold, sorted by score descending,
\* the sort being stable; find_best_match is find_closest with
\* max_results = 1: the first candidate that no candidate beats
find_closest(candidates, scores, threshold_tenths) ==
  LET ok == {i \in 1..Len(candidates) :
               ScoreAtLeast(scores[i], threshold_tenths)}
  IN  IF ok = {} THEN NoMatch
      ELSE LET b == CHOOSE i \in ok :
                      \A k \in ok :
                         \/ ScoreGreater(scores[i], scores[k])
                         \/ /\ ~ScoreGreater(scores[k], scores[i])
                            /\ i <= k
           IN  [name |-> candidates[b], score |-> scores[b]]

find_best_match(target, candidates, threshold_tenths) ==
  IF target = NoName \/ candidates = <<>> THEN NoMatch
  ELSE find_closest(candidates,
                    [i \in 1..Len(candidates) |->
                       similarity(target, candidates[i])],
                    threshold_tenths)

\* ------------------------------------------------------------------------
\* SchemaAwareFixer
\* ------------------------------------------------------------------------

QuickFixFailed ==
  [success |-> FALSE, fixed_sql |-> NoText, correction_type |-> NoName,
   original_value |-> NoName, corrected_value |-> NoName,
   confidence |-> [num |-> 0, den |-> 1]]

\* the patterns are tried in order, the first that matches wins: groups
\* holds what each pattern captures
FirstMatch(groups) ==
  LET hits == {k \in 1..Len(groups) : groups[k] # NoName}
  IN  IF hits = {} THEN NoName
      ELSE groups[CHOOSE h \in hits : \A g \in hits : h <= g]

fixer_extract_table_name(error_message) ==
  FirstMatch(<<SearchAfterKeyword(error_message, "table"),
               SearchAfterKeyword(error_message, "relation"),
               SearchNoSuch(error_message, "table"),
               SearchQuotedDoesNotExist(error_message)>>)

fixer_extract_column_name(error_message) ==
  FirstMatch(<<SearchAfterKeyword(error_message, "column"),
               SearchAfterKeyword(error_message, "field"),
               SearchNoSuch(error_message, "column"),
               SearchQuotedDoesNotExist(error_message)>>)

\* re.sub(r'\b' + old + r'\b', new, sql, flags=IGNORECASE): every token that
\* is the old name, whatever its case, becomes the new name
replace_name(sql, old_name, new_name) ==
  [i \in 1..Len(sql) |->
     IF Lower(sql[i]) = Lower(old_name) THEN new_name ELSE sql[i]]

InSeq(x, seq) == \E i \in 1..Len(seq) : seq[i] = x

\* the identifier after the first FROM, if it is a known table, else the
\* one after the first JOIN, if it is a known table, else none
known_tables(fixer, names) ==
  [k \in 1..Len(names) |->
     IF InSeq(names[k], fixer.table_names) THEN names[k] ELSE NoName]

identify_table_from_sql(fixer, sql) ==
  FirstMatch(known_tables(fixer, <<SearchAfterWord(sql, "from"),
                                   SearchAfterWord(sql, "join")>>))

\* lines 200-237, given the missing name and the best match
table_fix(sql, missing_table, match) ==
      IF missing_table = NoName THEN QuickFixFailed
      ELSE IF match.name = NoName THEN QuickFixFailed
      ELSE IF ~ScoreAtLeast(match.score, 7)
        THEN [QuickFixFailed EXCEPT !.confidence = match.score]
      \* re.sub on sql = None raises TypeError, which quick_fix catches
      ELSE IF sql = NoneSql THEN QuickFixFailed
      ELSE [success |-> TRUE,
            fixed_sql |-> replace_name(sql, missing_table, match.name),
            correction_type |-> "table_name",
            original_value |-> missing_table,
            corrected_value |-> match.name,
            confidence |-> match.score]

\* lines 203-210, given the missing name
table_match(fixer, sql, missing_table) ==
  table_fix(sql, missing_table,
            find_best_match(missing_table, fixer.table_names, 6))

fix_table_not_found(fixer, sql, error_message, context) ==
  table_match(fixer, sql,
              IF context.missing_table # NoName THEN context.missing_table
              ELSE fixer_extract_table_name(error_message))

\* lines 251-299, given the missing name and the best match
column_fix(sql, missing_column, match) ==
      IF missing_column = NoName THEN QuickFixFailed
      \* re.search on sql = None raises TypeError, which quick_fix catches
      ELSE IF sql = NoneSql THEN QuickFixFailed
      ELSE IF match.name = NoName THEN QuickFixFailed
      ELSE IF ~ScoreAtLeast(match.score, 7)
        THEN [QuickFixFailed EXCEPT !.confidence = match.score]
      ELSE [success |-> TRUE,
            fixed_sql |-> replace_name(sql, missing_column, match.name),
            correction_type |-> "column_name",
            original_value |-> missing_column,
            corrected_value |-> match.name,
            confidence |-> match.score]

\* lines 260-265: the columns of the table the SQL queries, or all columns
column_candidates(fixer, table_name) ==
  IF table_name # NoName THEN fixer.columns_by_table[table_name]
  ELSE fixer.all_columns

\* lines 254-272, given the missing name.  With sql = None line 257 raises
\* before any candidate is looked at
column_match(fixer, sql, missing_column) ==
  column_fix(sql, missing_column,
             IF missing_column = NoName \/ sql = NoneSql THEN NoMatch
             ELSE find_best_match(
                    missing_column,
                    column_candidates(fixer,
                                      identify_table_from_sql(fixer, sql)),
                    6))

fix_column_not_found(fixer, sql, error_message, context) ==
  column_match(fixer, sql,
               IF context.missing_column # NoName THEN context.missing_column
               ELSE fixer_extract_column_name(error_message))

\* the three mechanical fixes, tried in order; the first that changes the
\* SQL is returned.  "  " is a run of two or more blanks, ",~" a comma
\* with no blank after it
DropToken(sql, tok) ==
  LET keep == {i \in 1..Len(sql) : sql[i] # tok}
      nth(k) == CHOOSE i \in keep : Cardinality({j \in keep : j <= i}) = k
  IN  [k \in 1..Cardinality(keep) |-> sql[nth(k)]]

fix_syntax_error(fixer, sql, error_message, context) ==
  LET syntaxFix(fixed) ==
        [success |-> TRUE, fixed_sql |-> fixed, correction_type |-> "syntax",
         original_value |-> NoName, corrected_value |-> NoName,
         confidence |-> [num |-> 8, den |-> 10]]
  IN  IF sql = NoneSql THEN QuickFixFailed
      ELSE IF sql # <<>> /\ sql[Len(sql)] \notin {";", "  "}
        THEN syntaxFix(Append(sql, ";"))
      ELSE IF InSeq("  ", sql) THEN syntaxFix(DropToken(sql, "  "))
      ELSE IF InSeq(",~", sql)
        THEN syntaxFix([i \in 1..Len(sql) |->
                          IF sql[i] = ",~" THEN "," ELSE sql[i]])
      ELSE QuickFixFailed

quick_fix(fixer, sql, error_type, error_message, context) ==
  IF error_type = TABLE_NOT_FOUND
    THEN fix_table_not_found(fixer, sql, error_message, context)
  ELSE IF error_type = COLUMN_NOT_FOUND
    THEN fix_column_not_found(fixer, sql, error_message, context)
  ELSE IF error_type = SYNTAX_ERROR
    THEN fix_syntax_error(fixer, sql, error_message, context)
  ELSE QuickFixFailed

\* ------------------------------------------------------------------------
\* CorrectionLearner: patterns
\* ------------------------------------------------------------------------

\* PostgreSQL: relation "ordrs" does not exist
ErrRelationOrdrs == <<"relation", Quote, "ordrs", Quote, "does", "not", "exist">>
\* PostgreSQL: column "pric" does not exist
ErrColumn == <<"column", Quote, "pric", Quote, "does", "not", "exist">>

SqlPrice == <<"select", "price", "from", "products">>
\* PostgreSQL: relation "30" does not exist
ErrRelationNumeral ==
  <<"relation", Quote, "30", Quote, "does", "not", "exist">>
SqlNumeral == <<"select", "*", "from", Quote, "30", Quote>>

\* the words re.sub(r"'[^']*'", ...) and re.sub(r'\b\d+\b', ...) rewrite
SingleQuoted == {"'gen_result'"}
Numerals == {"30"}

\* re.sub(r'"[^"]*"', '"<name>"', text) from position i on: a quote and the
\* next quote after it enclose one placeholder
RECURSIVE ReplaceQuoted(_, _)
ReplaceQuoted(text, i) ==
  IF i > Len(text) THEN <<>>
  ELSE IF text[i] = Quote /\ \E j \in (i + 1)..Len(text) : text[j] = Quote
    THEN <<Quote, "<name>", Quote>>
         \o ReplaceQuoted(text,
               1 + CHOOSE j \in (i + 1)..Len(text) :
                     /\ text[j] = Quote
                     /\ \A k \in (i + 1)..(j - 1) : text[k] # Quote)
  ELSE <<text[i]>> \o ReplaceQuoted(text, i + 1)

ReplaceWords(text) ==
  [i \in 1..Len(text) |->
     IF text[i] \in SingleQuoted THEN "'<name>'"
     ELSE IF text[i] \in Numerals THEN "<num>"
     ELSE text[i]]

\* _normalize_error
normalize_error(error_message) ==
  ReplaceWords(ReplaceQuoted(LowerText(error_message), 1))

\* CorrectionLearner._extract_table_name / _extract_column_name: three
\* patterns on the lowered text, the first that matches wins
learner_extract_table_name(error_message) ==
  FirstMatch(<<SearchAfterKeyword(LowerText(error_message), "table"),
               SearchAfterKeyword(LowerText(error_message), "relation"),
               SearchNoSuch(LowerText(error_message), "table")>>)

learner_extract_column_name(error_message) ==
  FirstMatch(<<SearchAfterKeyword(LowerText(error_message), "column"),
               SearchAfterKeyword(LowerText(error_message), "field"),
               SearchNoSuch(LowerText(error_message), "column")>>)

Words(sql) == {sql[i] : i \in 1..Len(sql)}

\* correction_description: what kind of sentence it is, the name it gives
\* and the words it lists (list(set)[:3]: the SQL texts of the model differ
\* in at most three words)
Description(what, name, removed, added) ==
  [what |-> what, name |-> name, removed |-> removed, added |-> added]

\* _analyze_sql_diff on the lowered words of the two texts
analyze_sql_diff(original, corrected) ==
  IF Words(corrected) \ Words(original) # {}
       /\ Words(original) \ Words(corrected) # {}
    THEN Description("Changed", NoName, Words(original) \ Words(corrected),
                     Words(corrected) \ Words(original))
  ELSE IF Words(corrected) \ Words(original) # {}
    THEN Description("Added", NoName, {}, Words(corrected) \ Words(original))
  ELSE IF Words(original) \ Words(corrected) # {}
    THEN Description("Removed", NoName, Words(original) \ Words(corrected), {})
  ELSE Description("Minor correction", NoName, {}, {})

\* lines 268-287, given the names extracted
patterns_of(error_type, original_sql, original_error, corrected_sql, table, column) ==
  [error_pattern |-> normalize_error(original_error),
   table_pattern |-> IF error_type = TABLE_NOT_FOUND THEN table ELSE NoName,
   column_pattern |-> IF error_type = COLUMN_NOT_FOUND THEN column ELSE NoName,
   description |->
     IF error_type = TABLE_NOT_FOUND /\ table # NoName
       THEN Description("Fix for missing table", table, {}, {})
     ELSE IF error_type = COLUMN_NOT_FOUND /\ column # NoName
       THEN Description("Fix for missing column", column, {}, {})
     ELSE analyze_sql_diff(LowerText(original_sql), LowerText(corrected_sql))]

\* _extract_patterns: an unset pattern is NoName
extract_patterns(error_type, original_sql, original_error, corrected_sql) ==
  patterns_of(error_type, original_sql, original_error, corrected_sql,
              learner_extract_table_name(original_error),
              learner_extract_column_name(original_error))

\* ------------------------------------------------------------------------
\* CorrectionLearner: the store of LearnedCorrection rows
\* ------------------------------------------------------------------------

\* a score in hundredths (0.7 is 70); the rounding of binary floats is left
\* out
InitialConfidence == 70
LearnNudge == 10
SuccessNudge == 5
FailureNudge == 10
ConfidenceThreshold == 50

RECURSIVE Gcd(_, _)
Gcd(a, b) == IF b = 0 THEN a ELSE Gcd(b, a % b)

\* the fraction num/den in lowest terms
Fraction(num, den) ==
  [num |-> num \div Gcd(num, den), den |-> den \div Gcd(num, den)]

\* lines 92-105: the row of a new correction; the store gives it the next
\* id, its position in the table
LearnedCorrection(error_type, patterns, database_type, original_sql, original_error, corrected_sql) ==
  [error_type |-> error_type,
   error_pattern |-> patterns.error_pattern,
   database_type |-> database_type,
   original_sql |-> original_sql,
   original_error |-> original_error,
   corrected_sql |-> corrected_sql,
   correction_description |-> patterns.description,
   table_pattern |-> patterns.table_pattern,
   column_pattern |-> patterns.column_pattern,
   times_applied |-> 1,
   success_rate |-> Fraction(1, 1),
   confidence_score |-> InitialConfidence]

\* no row (None)
NoId == 0

\* a lookup by error type, database type and error pattern alone
similar_by_triple(store, error_type, patterns, database_type) ==
  {id \in 1..Len(store) :
     /\ store[id].error_type = error_type
     /\ store[id].database_type = database_type
     /\ store[id].error_pattern = patterns.error_pattern}

\* _find_similar_correction: the ids of the rows the query selects. A
\* pattern that is unset in the key adds no filter
similar_corrections(store, error_type, patterns, database_type) ==
  {id \in 1..Len(store) :
     /\ store[id].error_type = error_type
     /\ store[id].database_type = database_type
     /\ store[id].error_pattern = patterns.error_pattern
     /\ patterns.table_pattern # NoName =>
          store[id].table_pattern = patterns.table_pattern
     /\ patterns.column_pattern # NoName =>
          store[id].column_pattern = patterns.column_pattern}

\* query.first(): the query has no ORDER BY, any selected row may come
\* first
first_of(ids) == IF ids = {} THEN {NoId} ELSE ids

\* an update whose write is lost
learn_update_lost(store, existing) == store

\* lines 82-89: the existing row is updated
learn_update(store, existing) ==
  [store EXCEPT ![existing] =
     [@ EXCEPT !.times_applied = @ + 1,
               !.confidence_score =
                  IF @ + LearnNudge > 100 THEN 100 ELSE @ + LearnNudge]]

\* a learn without the test of lines 61-62
learn_whatever_the_flags(enable_learning, store, existing, error_type, original_sql, original_error, corrected_sql, database_type, was_successful) ==
  IF existing # NoId
    THEN [store |-> learn_update(store, existing), id |-> existing]
  ELSE [store |->
          Append(store,
                 LearnedCorrection(
                   error_type,
                   extract_patterns(error_type, original_sql, original_error,
                                    corrected_sql),
                   database_type, original_sql, original_error,
                   corrected_sql)),
        id |-> Len(store) + 1]

\* learn_from_correction, given the row _find_similar_correction returned:
\* the store after the call and the id returned
learn_from_correction(enable_learning, store, existing, error_type, original_sql, original_error, corrected_sql, database_type, was_successful) ==
  IF ~enable_learning \/ ~was_successful
    THEN [store |-> store, id |-> NoId]
  ELSE IF existing # NoId
    THEN [store |-> learn_update(store, existing), id |-> existing]
  ELSE [store |->
          Append(store,
                 LearnedCorrection(
                   error_type,
                   extract_patterns(error_type, original_sql, original_error,
                                    corrected_sql),
                   database_type, original_sql, original_error,
                   corrected_sql)),
        id |-> Len(store) + 1]

\* the update without the clamps of lines 229 and 232
applied_row_unclamped(row, total_applications, was_successful) ==
  [row EXCEPT
     !.times_applied = total_applications,
     !.confidence_score =
        IF was_successful THEN @ + SuccessNudge ELSE @ - FailureNudge]

\* lines 226-239, given the new times_applied
applied_row(row, total_applications, was_successful) ==
  [row EXCEPT
     !.times_applied = total_applications,
     !.confidence_score =
        IF was_successful
          THEN (IF @ + SuccessNudge > 100 THEN 100 ELSE @ + SuccessNudge)
          ELSE (IF @ - FailureNudge < 0 THEN 0 ELSE @ - FailureNudge),
     !.success_rate =
        IF total_applications > 0
          THEN Fraction(@.num * (total_applications - 1)
                          + (IF was_successful THEN @.den ELSE 0),
                        @.den * total_applications)
          ELSE @]

\* an update that counts failed applications as well
apply_counting_failures(store, correction_id, was_successful) ==
  IF correction_id \notin 1..Len(store) THEN store
  ELSE [store EXCEPT ![correction_id] =
          applied_row(@, @.times_applied + 1, was_successful)]

\* apply_learned_correction: an unknown id changes nothing
apply_learned_correction(store, correction_id, was_successful) ==
  IF correction_id \notin 1..Len(store) THEN store
  ELSE [store EXCEPT ![correction_id] =
          applied_row(@, IF was_successful THEN @.times_applied + 1
                                           ELSE @.times_applied,
                      was_successful)]

\* the query without the confidence filter of line 153
applicable_any_confidence(store, error_type, table_name, column_name, database_type) ==
  {id \in 1..Len(store) :
     /\ store[id].error_type = error_type
     /\ store[id].database_type = database_type
     /\ table_name # NoName =>
          store[id].table_pattern \in {table_name, NoName}
     /\ column_name # NoName =>
          store[id].column_pattern \in {column_name, NoName}}

\* lines 149-172: the rows the query of find_applicable_corrections selects
applicable(store, error_type, table_name, column_name, database_type) ==
  {id \in 1..Len(store) :
     /\ store[id].error_type = error_type
     /\ store[id].database_type = database_type
     /\ store[id].confidence_score >= ConfidenceThreshold
     /\ table_name # NoName =>
          store[id].table_pattern \in {table_name, NoName}
     /\ column_name # NoName =>
          store[id].column_pattern \in {column_name, NoName}}

\* row a is not after row b in ORDER BY confidence_score DESC,
\* times_applied DESC
ranked_before(store, a, b) ==
  \/ store[a].confidence_score > store[b].confidence_score
  \/ /\ store[a].confidence_score = store[b].confidence_score
     /\ store[a].times_applied >= store[b].times_applied

\* lines 175-178: the lists the ordered, limited query may return; rows
\* that tie come in any order
ordered_limited(store, ids, limit) ==
  {res \in UNION {[1..n -> ids] : n \in 0..Cardinality(ids)} :
     /\ Len(res) = (IF limit < Cardinality(ids) THEN limit
                    ELSE Cardinality(ids))
     /\ \A j, k \in 1..Len(res) : j < k =>
           res[j] # res[k] /\ ranked_before(store, res[j], res[k])
     /\ \A id \in ids :
           (\A k \in 1..Len(res) : res[k] # id) =>
              \A k \in 1..Len(res) : ranked_before(store, res[k], id)}

\* find_applicable_corrections: the lists of ids it may return
find_applicable_corrections(enable_learning, store, error_type, error_message, database_type, limit) ==
  IF ~enable_learning THEN {<<>>}
  ELSE ordered_limited(
         store,
         applicable(store, error_type,
                    learner_extract_table_name(error_message),
                    learner_extract_column_name(error_message),
                    database_type),
         limit)

\* ------------------------------------------------------------------------
\* ResultVerificationAgent
\* ------------------------------------------------------------------------

EMPTY_RESULT == "empty_result"
ALL_NULLS == "all_nulls"
EXTREME_VALUE == "extreme_value"
UNEXPECTED_COUNT == "unexpected_count"
NEGATIVE_COUNT == "negative_count"
NO_ISSUE == "no_issue"

\* extreme_value_threshold, 1e9 by default
ExtremeValueThreshold == 1000000000

\* a value of a result row: None, or a number
Null == [null |-> TRUE, n |-> 0]
Number(n) == [null |-> FALSE, n |-> n]

Abs(n) == IF n < 0 THEN 0 - n ELSE n

\* a cell of a row (an item of the dict)
Cell(col, val) == [col |-> col, val |-> val]

\* the tokens of the model that have "count" in them, in lower case
TokensWithCount == {"count", "order_count", "accounts", "count(*)"}

\* 'count' in token.lower()
HasCount(tok) == Lower(tok) \in TokensWithCount

\* 'COUNT(' in sql.upper()
is_count_query(sql) ==
  \E i \in 1..Len(sql) : Lower(sql[i]) \in {"count(*)"}

\* any(keyword in question.lower() ...) for 'how many', 'count',
\* 'number of', 'total'; the words of a question are one blank apart
expects_data(question) ==
  \/ \E i \in 1..Len(question) :
        HasCount(question[i]) \/ Lower(question[i]) = "total"
  \/ \E i \in 1..(Len(question) - 1) :
        \/ Lower(question[i]) = "how" /\ Lower(question[i + 1]) = "many"
        \/ Lower(question[i]) = "number" /\ Lower(question[i + 1]) = "of"

VerificationResult(is_suspicious, confidence, issue_type) ==
  [is_suspicious |-> is_suspicious, confidence |-> confidence,
   issue_type |-> issue_type]

\* the result of a check that found nothing
Passed == VerificationResult(FALSE, 0, NO_ISSUE)

\* the cells of all rows
Cells(data) ==
  UNION {{data[r][c] : c \in 1..Len(data[r])} : r \in 1..Len(data)}

\* _has_all_nulls
has_all_nulls(data) ==
  /\ data # <<>>
  /\ \A cell \in Cells(data) : cell.val.null

\* _check_extreme_values
check_extreme_values(data) ==
  IF \E cell \in Cells(data) :
        ~cell.val.null /\ Abs(cell.val.n) > ExtremeValueThreshold
    THEN VerificationResult(TRUE, 60, EXTREME_VALUE)
    ELSE Passed

\* _check_count_queries: a count column of the first row is 0 and the
\* question asks for a number
check_count_queries(question, sql, data) ==
  IF /\ is_count_query(sql)
     /\ Len(data) > 0
     /\ \E c \in 1..Len(data[1]) :
           /\ HasCount(data[1][c].col)
           /\ data[1][c].val = Number(0)
     /\ expects_data(question)
    THEN VerificationResult(TRUE, 50, UNEXPECTED_COUNT)
    ELSE Passed

\* a check for negative counts that looks at the first row only
check_negative_first_row(data) ==
  IF /\ Len(data) > 0
     /\ \E c \in 1..Len(data[1]) :
           /\ HasCount(data[1][c].col)
           /\ ~data[1][c].val.null
           /\ data[1][c].val.n < 0
    THEN VerificationResult(TRUE, 100, NEGATIVE_COUNT)
    ELSE Passed

\* _check_negative_values
check_negative_values(data) ==
  IF \E cell \in Cells(data) :
        HasCount(cell.col) /\ ~cell.val.null /\ cell.val.n < 0
    THEN VerificationResult(TRUE, 100, NEGATIVE_COUNT)
    ELSE Passed

\* the matches of (?:FROM|JOIN)\s+([a-zA-Z_][a-zA-Z0-9_]*) with FROM only
RECURSIVE FindTablesAfterFrom(_, _)
FindTablesAfterFrom(sql, i) ==
  IF i >= Len(sql) THEN <<>>
  ELSE IF Lower(sql[i]) = "from" /\ IsIdent(sql[i + 1])
    THEN <<sql[i + 1]>> \o FindTablesAfterFrom(sql, i + 2)
  ELSE FindTablesAfterFrom(sql, i + 1)

\* re.findall(r'(?:FROM|JOIN)\s+([a-zA-Z_][a-zA-Z0-9_]*)', sql,
\* re.IGNORECASE) from token i on: the names as they are written, the
\* search going on behind each match
RECURSIVE FindTables(_, _)
FindTables(sql, i) ==
  IF i >= Len(sql) THEN <<>>
  ELSE IF Lower(sql[i]) \in {"from", "join"} /\ IsIdent(sql[i + 1])
    THEN <<sql[i + 1]>> \o FindTables(sql, i + 2)
  ELSE FindTables(sql, i + 1)

\* _extract_table_names: list(set(tables)), the distinct names in any
\* order
extract_table_names(sql) ==
  {tables \in [1..Cardinality({FindTables(sql, 1)[k] :
                                 k \in 1..Len(FindTables(sql, 1))})
                 -> {FindTables(sql, 1)[k] : k \in 1..Len(FindTables(sql, 1))}] :
     \A j, k \in 1..Len(tables) : j # k => tables[j] # tables[k]}

\* SELECT COUNT(*) as count FROM {table}
CountQuery(table) == <<"select", "count(*)", "as", "count", "from", table>>

\* SELECT * FROM {table} LIMIT 5
SampleQuery(table) == <<"select", "*", "from", table, "limit", "5">>

\* _check_empty_result, lines 159-168: the diagnostic queries, two for
\* each table
check_empty_result(tables) ==
  [k \in 1..(2 * Len(tables)) |->
     IF k % 2 = 1 THEN CountQuery(tables[(k + 1) \div 2])
     ELSE SampleQuery(tables[k \div 2])]

\* diagnostic_queries of a VerificationResult: a list or None
Queries(list) == [given |-> TRUE, list |-> list]
NoQueries == [given |-> FALSE, list |-> <<>>]

\* the first of the checks that is suspicious, or the last one
FirstSuspicious(checks) ==
  IF \E k \in 1..Len(checks) : checks[k].is_suspicious
    THEN checks[CHOOSE k \in 1..Len(checks) :
                  /\ checks[k].is_suspicious
                  /\ \A j \in 1..(k - 1) : ~checks[j].is_suspicious]
    ELSE Passed

\* the checks with the one for negative counts made first
verify_negative_first(question, sql, result) ==
  IF ~result.success THEN Passed
  ELSE FirstSuspicious(
         <<check_negative_values(result.data),
           IF result.row_count = 0
             THEN VerificationResult(TRUE, 70, EMPTY_RESULT) ELSE Passed,
           IF has_all_nulls(result.data)
             THEN VerificationResult(TRUE, 80, ALL_NULLS) ELSE Passed,
           check_extreme_values(result.data),
           check_count_queries(question, sql, result.data)>>)

\* verify_results, lines 96-139; _check_empty_result and _check_all_nulls
\* always report their issue
verify_results(question, sql, result) ==
  IF ~result.success THEN Passed
  ELSE FirstSuspicious(
         <<IF result.row_count = 0
             THEN VerificationResult(TRUE, 70, EMPTY_RESULT) ELSE Passed,
           IF has_all_nulls(result.data)
             THEN VerificationResult(TRUE, 80, ALL_NULLS) ELSE Passed,
           check_extreme_values(result.data),
           check_count_queries(question, sql, result.data),
           check_negative_values(result.data)>>)

\* ------------------------------------------------------------------------
\* State
\* ------------------------------------------------------------------------

\* invocations of generate_and_execute_with_retry ("run") or of
\* execute_with_retry ("ewr") on one agent object
Invs == {1, 2}

\* inv[i]: the locals of invocation i, the agent configuration it runs with,
\* the await it is suspended at (pc) and the trace of the collaborator
\* calls it has completed.
\* schema_fixer: the agent attribute self.schema_fixer
\* corrections: the table of LearnedCorrection rows, shared by every
\* learner; the id of a row is its position
\* tally: for every row, its times_applied when the program started (base)
\* and how many learn calls have returned its id and how many successful
\* and failed applications have been recorded for it since
\* reply: the last call made on a learner directly, with what it returned
\* verification: a call of verify_results, its arguments and, once it has
\* returned, its result
VARIABLES inv, schema_fixer, corrections, tally, reply, verification, call,
          endpoint

vars ==
  <<inv, schema_fixer, corrections, tally, reply, verification, call,
    endpoint>>

\* error_type of the attempt record of a successful execute_with_retry
\* attempt (None)
NoErrorType == "none"

CorrectionAttempt(n, sql, error, error_type, success) ==
  [attempt_number |-> n, sql |-> sql, error |-> error,
   error_type |-> error_type, success |-> success]

\* a completed collaborator call: arg is the SQL passed in, text the error
\* text passed in, hint whether a learned correction was part of the hints;
\* ok tells whether the call returned normally (for execute: with success),
\* sql is the SQL returned (for execute and learn: the SQL run or stored)
\* and error the error text returned or raised
Event(op, attempt, arg, text, hint, ok, sql, error) ==
  [op |-> op, attempt |-> attempt, arg |-> arg, text |-> text, hint |-> hint,
   ok |-> ok, sql |-> sql, error |-> error]

Log(r, e) == [r EXCEPT !.trace = Append(@, e)]

NoResult ==
  [success |-> FALSE, sql |-> NoText, error |-> NoText, attempts |-> <<>>,
   self_corrected |-> FALSE, total_attempts |-> 0]

\* a value of a result dict: a number, a list, a text, or no value where
\* the key is missing
IntValue(n) == [kind |-> "int", n |-> n, list |-> <<>>, text |-> NoText]
ListValue(list) == [kind |-> "list", n |-> 0, list |-> list, text |-> NoText]
TextValue(text) == [kind |-> "text", n |-> 0, list |-> <<>>, text |-> text]
Missing == [kind |-> "missing", n |-> 0, list |-> <<>>, text |-> NoText]

\* what MultiDatabaseHandler.execute_query_with_self_correction returns
HandlerResult(success, error, sql, correction_attempts, attempts) ==
  [returned |-> TRUE, success |-> success, error |-> error, sql |-> sql,
   correction_attempts |-> correction_attempts, corrections |-> attempts]

\* the handler has not returned
NoHandlerResult ==
  [HandlerResult(FALSE, Missing, NoText, Missing, Missing) EXCEPT
     !.returned = FALSE]

IdleInvocation ==
  [mode |-> "idle", pc |-> "idle", max_retries |-> 0,
   handled |-> NoHandlerResult,
   enable_schema_fixes |-> FALSE, has_learner |-> FALSE,
   schema |-> SchemaFreeText, session |-> "async",
   attempt_num |-> 0, sql |-> NoneSql, last_error |-> NoText,
   gen_bound |-> FALSE, hint |-> FALSE, timer |-> FALSE,
   attempts |-> <<>>, result |-> NoResult, trace |-> <<>>]

\* the arguments of a learner call that describe the correction
Case(error_type, original_sql, original_error, corrected_sql, database_type) ==
  [error_type |-> error_type, original_sql |-> original_sql,
   original_error |-> original_error, corrected_sql |-> corrected_sql,
   database_type |-> database_type]

NoCase == Case(NoErrorType, NoText, NoText, NoText, NoName)

\* a completed call on a learner: the learner's enable_learning, the
\* arguments, the id returned (learn) or given (apply), the list returned
\* (find) and the table as it was before the call
Reply(op, enable_learning, case, was_successful, limit, id, ids, before) ==
  [op |-> op, enable_learning |-> enable_learning, case |-> case,
   was_successful |-> was_successful, limit |-> limit, id |-> id,
   ids |-> ids, before |-> before]

NoReply == Reply("none", FALSE, NoCase, FALSE, 0, NoId, <<>>, <<>>)

\* the execution result handed to verify_results
ExecutionResult(success, data, row_count) ==
  [success |-> success, data |-> data, row_count |-> row_count]

\* result_verification_agent.py lines 36-43; sample_data is None or a list
\* of rows, row_count None or a number
DiagnosticResult(table_exists, table_has_data, column_exists) ==
  [table_exists |-> table_exists, table_has_data |-> table_has_data,
   column_exists |-> column_exists,
   sample_data |-> [given |-> FALSE, data |-> <<>>],
   row_count |-> Null, diagnosis |-> "None"]

\* a call of run_diagnostics with the VerificationResult returned: idle
\* before the call, running while it awaits a diagnostic query, done when
\* it has returned, raised when an exception has left it; executed lists
\* the queries handed to execute_query and how each ended
NoDiagnostics ==
  [pc |-> "idle", enable_diagnostics |-> TRUE, executed |-> <<>>,
   result |-> DiagnosticResult(TRUE, TRUE, TRUE)]

\* a call of verify_results; pending until it has returned. The verdict
\* holds is_suspicious, confidence and issue_type of the VerificationResult
\* returned, diagnostic_queries its diagnostic_queries
Verification(question, sql, result, pending, verdict) ==
  [question |-> question, sql |-> sql, result |-> result,
   pending |-> pending, verdict |-> verdict, diagnostic_queries |-> NoQueries,
   diagnostics |-> NoDiagnostics]

\* no call of verify_results
NoVerification ==
  Verification(<<>>, <<>>, ExecutionResult(FALSE, <<>>, 0), FALSE, Passed)

\* a response of the query endpoint: the question, the SQL, whether the run
\* succeeded, the rows (those of the database they were read from, or None)
\* and whether the response comes from the cache
QueryResponse(question, sql, is_valid, results, cached) ==
  [status |-> 200, question |-> question, sql |-> sql,
   is_valid |-> is_valid, results |-> results, cached |-> cached]

\* the rows of a result read from the database of a connection
RowsFrom(connection) == [given |-> TRUE, connection |-> connection]
NoRows == [given |-> FALSE, connection |-> "None"]

\* no response: the value of a key that the cache does not hold
NoResponse ==
  [QueryResponse(NoText, NoText, FALSE, NoRows, FALSE) EXCEPT !.status = 0]

\* the HTTPException of query.py lines 196-201
ServerError ==
  [QueryResponse(NoText, NoText, FALSE, NoRows, FALSE) EXCEPT !.status = 500]

\* a request to POST /query/: its fields, how far process_query has come
\* (idle, connection: about to read the active connection, agent: awaiting
\* the agent, done) and the connection it has read, or the one that was
\* active when it was answered from the cache
QueryRequest(question, database_type, use_cache, pc) ==
  [question |-> question, database_type |-> database_type,
   use_cache |-> use_cache, pc |-> pc, connection |-> "None"]

NoRequest == QueryRequest(NoText, "", FALSE, "idle")

\* query.py lines 50-53: the cache key, a digest of the question and the
\* database_type of the request
CacheKey(question, database_type) == <<"query", question, database_type>>

\* the questions and database types of the requests
AskedQuestions == {<<"how", "many", "orders">>, <<"list", "the", "orders">>}
RequestTypes == {"postgresql"}
CacheKeys ==
  {CacheKey(q, d) : q \in AskedQuestions, d \in RequestTypes}

\* the application: the connection marked active (None, or one of two), the
\* cache, the request in progress and the last response
NoEndpoint ==
  [active |-> "None", cache |-> [key \in CacheKeys |-> NoResponse],
   request |-> NoRequest, response |-> NoResponse]

\* a call of one of the static and helper methods: the arguments it is
\* given (the names a and b, the SQL, the error message, the fixer and its
\* context; for a replacement the characters of the SQL and of the two
\* names) and, once it has returned, the value of the kind the method
\* returns
Call(fn, a, b, sql, error_message, fixer, context) ==
  [fn |-> fn, pending |-> TRUE, a |-> a, b |-> b, sql |-> sql,
   error_message |-> error_message, fixer |-> fixer, context |-> context,
   old_name |-> NoText, new_name |-> NoText,
   quickfix |-> QuickFixFailed, text |-> NoText, error_type |-> UNKNOWN,
   score |-> NoMatch.score, swapped |-> NoMatch.score]

NoContext == extract_error_context(NoText, UNKNOWN)

NoCall ==
  [Call("none", NoName, NoName, NoText, NoText, NoFixer, NoContext)
     EXCEPT !.pending = FALSE]

\* executor.py lines 70-84: execute_query awaits the query under
\* asyncio.wait_for unless the session is a synchronous Session, which it
\* runs in the thread pool with no timeout
CallExecute(r) ==
  [r EXCEPT !.pc = "exec_wait", !.timer = (r.session = "async")]

\* sql or ""
SqlOrEmpty(sql) == IF sql = NoneSql THEN <<>> ELSE sql

\* ------------------------------------------------------------------------
\* generate_and_execute_with_retry, as the steps between two awaits
\* ------------------------------------------------------------------------

\* lines 436-448: all retries exhausted
RunExhausted(r) ==
  [r EXCEPT !.pc = "done",
            !.result = [success |-> FALSE,
                        sql |-> SqlOrEmpty(r.sql),
                        error |-> r.last_error,
                        attempts |-> r.attempts,
                        self_corrected |-> Len(r.attempts) > 1,
                        total_attempts |-> Len(r.attempts)]]

\* lines 398-407: the success result
RunSuccess(r) ==
  [r EXCEPT !.pc = "done",
            !.result = [success |-> TRUE,
                        sql |-> r.sql,
                        error |-> NoText,
                        attempts |-> r.attempts,
                        self_corrected |-> r.attempt_num > 1,
                        total_attempts |-> r.attempt_num]]

RECURSIVE HandleException(_, _, _), LoopHead(_, _), PreExec(_, _), Repair(_, _)

\* a loop without the except clause: the exception leaves the coroutine
HandleExceptionPropagates(r, fixer, e) ==
  [r EXCEPT !.pc = "raised", !.last_error = e]

\* lines 417-434: except Exception
HandleException(r, fixer, e) ==
  LET r1 == [r EXCEPT !.last_error = e,
                      !.attempts = Append(@,
                         CorrectionAttempt(r.attempt_num, SqlOrEmpty(r.sql),
                                           e, UNKNOWN, FALSE))]
  IN  IF r.attempt_num >= r.max_retries THEN RunExhausted(r1)
      ELSE LoopHead([r1 EXCEPT !.attempt_num = @ + 1], fixer)

\* lines 357-365: the validation warning, then the call of execute_query.
\* For attempt_num # 1 the condition of line 358 is True and line 359 reads
\* gen_result, which is unbound when generate_sql raised
PreExec(r, fixer) ==
  IF r.attempt_num # 1 /\ ~r.gen_bound
    THEN HandleException(r, fixer, ExcUnbound)
    ELSE CallExecute(r)

\* lines 299-353, given the result of quick_fix
RepairWith(r, fixer, quickfix) ==
  LET consulted == r.enable_schema_fixes /\ fixer.present
      quick_fix_used == /\ consulted
                        /\ quickfix.success
                        /\ ScoreAtLeast(quickfix.confidence, 7)
      r1 == IF consulted
              THEN Log(r, Event("quick_fix", r.attempt_num, r.sql,
                                r.last_error, FALSE, quick_fix_used,
                                quickfix.fixed_sql, NoText))
              ELSE r
  IN  IF quick_fix_used
        THEN PreExec([r1 EXCEPT !.sql = quickfix.fixed_sql], fixer)
      ELSE IF r.has_learner
        THEN [r1 EXCEPT !.pc = "find_wait"]
      ELSE [r1 EXCEPT !.pc = "fix_wait", !.hint = FALSE]

\* lines 296-306, given the error type
RepairOf(r, fixer, error_type) ==
  RepairWith(r, fixer,
             IF r.enable_schema_fixes /\ fixer.present
               THEN quick_fix(fixer, r.sql, error_type, r.last_error,
                              extract_error_context(r.last_error, error_type))
               ELSE QuickFixFailed)

\* lines 294-353: the repair round up to its first await
Repair(r, fixer) == RepairOf(r, fixer, categorize_error(r.last_error))

\* a loop over range(1, max_retries + 2)
LoopHeadOneMore(r, fixer) ==
  IF r.attempt_num > r.max_retries + 1 THEN RunExhausted(r)
  ELSE IF r.attempt_num = 1 THEN [r EXCEPT !.pc = "gen_wait"]
  ELSE Repair(r, fixer)

\* line 279: the head of the for loop
LoopHead(r, fixer) ==
  IF r.attempt_num > r.max_retries THEN RunExhausted(r)
  ELSE IF r.attempt_num = 1 THEN [r EXCEPT !.pc = "gen_wait"]
  ELSE Repair(r, fixer)

\* lines 285-292: generate_sql returned
RunGenerateReturned(r, fixer, sql) ==
  PreExec(Log([r EXCEPT !.sql = sql, !.gen_bound = TRUE],
              Event("generate", r.attempt_num, NoText, NoText, FALSE, TRUE,
                    sql, NoText)),
          fixer)

\* a repair round that runs the corrected_sql of a hit at once
RunFindReturnedApplies(r, hit) ==
  IF hit
    THEN CallExecute(
           Log([r EXCEPT !.sql = SqlGood],
               Event("find", r.attempt_num, r.sql, r.last_error, FALSE, hit,
                     SqlGood, NoText)))
    ELSE Log([r EXCEPT !.pc = "fix_wait", !.hint = hit],
             Event("find", r.attempt_num, r.sql, r.last_error, FALSE, hit,
                   NoText, NoText))

\* lines 327-352: find_applicable_corrections returned; fix_sql_error is
\* called with the hints, to which a hit is appended
RunFindReturned(r, hit) ==
  Log([r EXCEPT !.pc = "fix_wait", !.hint = hit],
      Event("find", r.attempt_num, r.sql, r.last_error, FALSE, hit, NoText,
            NoText))

\* correction_learner.py lines 198-200: the lookup failed inside
\* find_applicable_corrections, which logs the error and returns []
RunFindFailed(r, e) ==
  Log([r EXCEPT !.pc = "fix_wait", !.hint = FALSE],
      Event("find", r.attempt_num, r.sql, r.last_error, FALSE, FALSE, NoText,
            e))

\* lines 347-355: fix_sql_error returned
RunFixReturned(r, fixer, sql) ==
  PreExec(Log([r EXCEPT !.sql = sql],
              Event("fix_error", r.attempt_num, r.sql, r.last_error, r.hint,
                    TRUE, sql, NoText)),
          fixer)

\* lines 367-415: execute_query returned
RunExecReturned(r, fixer, success, error) ==
  LET r1 == Log([r EXCEPT !.attempts = Append(@,
                    CorrectionAttempt(r.attempt_num, r.sql,
                       IF success THEN NoText ELSE error,
                       IF success THEN UNKNOWN ELSE categorize_error(error),
                       success))],
                Event("execute", r.attempt_num, r.sql, NoText, FALSE,
                      success, r.sql, IF success THEN NoText ELSE error))
      first_attempt == r1.attempts[1]
  IN  IF success
        THEN IF /\ r.attempt_num > 1
                /\ r.has_learner
                /\ Len(r1.attempts) > 0
                /\ ~first_attempt.success
                /\ first_attempt.error # NoText
               THEN [r1 EXCEPT !.pc = "learn_wait"]
               ELSE RunSuccess(r1)
      ELSE IF r.attempt_num >= r.max_retries
        THEN RunExhausted([r1 EXCEPT !.last_error = error])
      ELSE LoopHead([r1 EXCEPT !.last_error = error, !.attempt_num = @ + 1],
                    fixer)

LearnEvent(r, ok, error) ==
  Event("learn", r.attempt_num, r.attempts[1].sql, r.attempts[1].error,
        FALSE, ok, r.sql, error)

\* lines 388-407: learn_from_correction returned
RunLearnReturned(r) == RunSuccess(Log(r, LearnEvent(r, TRUE, NoText)))

\* correction_learner.py lines 114-117: the commit failed inside
\* learn_from_correction, which logs the error, rolls back and returns None
RunLearnFailed(r, e) == RunSuccess(Log(r, LearnEvent(r, TRUE, e)))

\* a collaborator call raised: the event, then the except clause
RunRaised(r, fixer, op, e) ==
  HandleException(
    Log(r, IF op = "learn" THEN LearnEvent(r, FALSE, e)
           ELSE Event(op, r.attempt_num, r.sql, r.last_error,
                      r.hint, FALSE, NoText, e)),
    fixer, e)

\* the task is cancelled while the call waits at an await
CancelEvent(r) ==
  Event("cancel", r.attempt_num, r.sql, r.last_error, r.hint, FALSE, NoText,
        NoText)

\* the cancellation is caught by the except clause like an exception
RunCancelledCaught(r, fixer) ==
  HandleException(Log(r, CancelEvent(r)), fixer, NoText)

\* asyncio.CancelledError is raised at the await. It derives from
\* BaseException: the clause "except Exception" of line 417 does not catch
\* it, nor does the one of executor.py, and it leaves the call
RunCancelled(r, fixer) ==
  [Log(r, CancelEvent(r)) EXCEPT !.pc = "cancelled"]

\* ------------------------------------------------------------------------
\* execute_with_retry
\* ------------------------------------------------------------------------

\* lines 576-585
EwrExhausted(r) ==
  [r EXCEPT !.pc = "done",
            !.result = [success |-> FALSE,
                        sql |-> r.sql,
                        error |-> r.last_error,
                        attempts |-> r.attempts,
                        self_corrected |-> Len(r.attempts) > 1,
                        total_attempts |-> Len(r.attempts)]]

\* lines 519-529
EwrSuccess(r) ==
  [r EXCEPT !.pc = "done",
            !.result = [success |-> TRUE,
                        sql |-> r.sql,
                        error |-> NoText,
                        attempts |-> r.attempts,
                        self_corrected |-> r.attempt_num > 1,
                        total_attempts |-> r.attempt_num]]

\* line 492: the head of the for loop; every iteration starts with execute
EwrLoopHead(r) ==
  IF r.attempt_num > r.max_retries THEN EwrExhausted(r)
  ELSE CallExecute(r)

\* lines 558-574: except Exception
EwrHandleException(r, e) ==
  LET r1 == [r EXCEPT !.last_error = e,
                      !.attempts = Append(@,
                         CorrectionAttempt(r.attempt_num, r.sql, e, UNKNOWN,
                                           FALSE))]
  IN  IF r.attempt_num >= r.max_retries THEN EwrExhausted(r1)
      ELSE EwrLoopHead([r1 EXCEPT !.attempt_num = @ + 1])

\* lines 502-553: execute_query returned; on a failure that is not the
\* last attempt fix_sql_error is called
EwrExecReturned(r, success, error) ==
  LET r1 == Log([r EXCEPT !.attempts = Append(@,
                    CorrectionAttempt(r.attempt_num, r.sql,
                       IF success THEN NoText ELSE error,
                       IF success THEN NoErrorType
                                  ELSE categorize_error(error),
                       success))],
                Event("execute", r.attempt_num, r.sql, NoText, FALSE,
                      success, r.sql, IF success THEN NoText ELSE error))
  IN  IF success THEN EwrSuccess(r1)
      ELSE IF r.attempt_num >= r.max_retries
        THEN EwrExhausted([r1 EXCEPT !.last_error = error])
      ELSE [r1 EXCEPT !.last_error = error, !.pc = "fix_wait",
                      !.hint = FALSE]

\* lines 548-556: fix_sql_error returned; the next iteration begins
EwrFixReturned(r, sql) ==
  EwrLoopHead(Log([r EXCEPT !.sql = sql, !.attempt_num = @ + 1],
                  Event("fix_error", r.attempt_num, r.sql, r.last_error,
                        FALSE, TRUE, sql, NoText)))

EwrRaised(r, op, e) ==
  EwrHandleException(
    Log(r, Event(op, r.attempt_num, r.sql, r.last_error, FALSE, FALSE,
                 NoText, e)),
    e)

\* ------------------------------------------------------------------------
\* Inputs
\* ------------------------------------------------------------------------

\* what generate_sql and fix_sql_error may return
GeneratedSql == {SqlTypo, SqlGood}

\* the error texts execute_query may return for a failed query
ExecErrors == {ErrRelation, ErrDuckDB}

Schemas == {SchemaShop, SchemaFreeText}

Sessions == {"async", "sync"}

\* database_type of a run (the default of the parameter)
DatabaseType == "postgresql"

\* the correction an earlier run has stored: the misspelled table
StoredCorrection ==
  LearnedCorrection(TABLE_NOT_FOUND,
                    extract_patterns(TABLE_NOT_FOUND, SqlTypo, ErrRelation,
                                     SqlGood),
                    DatabaseType, SqlTypo, ErrRelation, SqlGood)

\* the table after n more failed applications of row 1
RECURSIVE FailedTimes(_, _)
FailedTimes(store, n) ==
  IF n = 0 THEN store
  ELSE FailedTimes(apply_learned_correction(store, 1, FALSE), n - 1)

\* a correction learned three times and applied once with success
VeteranStore ==
  apply_learned_correction(
    learn_update(learn_update(<<StoredCorrection>>, 1), 1), 1, TRUE)

\* a correction applied once with success and seven times without
FadedStore ==
  FailedTimes(apply_learned_correction(<<StoredCorrection>>, 1, TRUE), 7)

\* a correction of an error that names no table, then StoredCorrection,
\* which was applied once without success
PairStore ==
  apply_learned_correction(
    <<LearnedCorrection(TABLE_NOT_FOUND,
                        extract_patterns(TABLE_NOT_FOUND, SqlNumeral,
                                         ErrRelationNumeral, SqlGood),
                        DatabaseType, SqlNumeral, ErrRelationNumeral, SqlGood),
      StoredCorrection>>,
    2, FALSE)

\* the table when the program starts
InitialStores == {<<>>, PairStore, VeteranStore, FadedStore}

\* ------------------------------------------------------------------------
\* Actions
\* ------------------------------------------------------------------------

\* the commit of a learn call: the table after it, and the tally of the
\* row whose id it returned
Learned(result) ==
  /\ corrections' = result.store
  /\ tally' =
       IF result.id = NoId THEN tally
       ELSE IF result.id > Len(tally)
         THEN Append(tally, [base |-> 0, learned |-> 1, applied |-> 0,
                             failed |-> 0])
       ELSE [tally EXCEPT ![result.id].learned = @ + 1]

RECURSIVE TallySum(_, _)
TallySum(t, n) ==
  IF n = 0 THEN 0
  ELSE t[n].learned + t[n].applied + t[n].failed + TallySum(t, n - 1)

\* the calls that have written the table
Written == TallySum(tally, Len(tally))

Step(i, r) ==
  /\ inv' = [inv EXCEPT ![i] = r]
  /\ UNCHANGED <<corrections, tally, reply, verification, call, endpoint>>

Done(i) == inv[i].pc = "done"

At(i, mode, pc) == inv[i].mode = mode /\ inv[i].pc = pc

\* lines 256-279: a call of generate_and_execute_with_retry up to its first
\* await, on an agent built with the given settings (lines 183-224)
\* lines 256-279: the call up to its first await, self.schema_fixer being
\* fixer
StartedRun(max_retries, enable_schema_fixes, has_learner, schema, session, fixer) ==
  LoopHead([IdleInvocation EXCEPT
              !.mode = "run",
              !.max_retries = max_retries,
              !.enable_schema_fixes = enable_schema_fixes,
              !.has_learner = has_learner,
              !.schema = schema,
              !.session = session,
              !.attempt_num = 1],
           fixer)

\* lines 260-271: self.schema_fixer once the run has started
FixerOf(enable_schema_fixes, schema) ==
  IF enable_schema_fixes
    THEN IF schema.parsable THEN SchemaAwareFixer(schema) ELSE NoFixer
    ELSE schema_fixer

StartRun(i, max_retries, enable_schema_fixes, has_learner, schema, session) ==
  /\ inv[i].mode = "idle"
  /\ schema_fixer' = FixerOf(enable_schema_fixes, schema)
  /\ Step(i, StartedRun(max_retries, enable_schema_fixes, has_learner,
                        schema, session, schema_fixer'))

\* lines 482-497: a call of execute_with_retry up to its first await
StartEwr(i, max_retries, enable_schema_fixes, has_learner, schema, session, sql) ==
  /\ inv[i].mode = "idle"
  /\ Step(i, EwrLoopHead([IdleInvocation EXCEPT
                            !.mode = "ewr",
                            !.max_retries = max_retries,
                            !.enable_schema_fixes = enable_schema_fixes,
                            !.has_learner = has_learner,
                            !.schema = schema,
                            !.session = session,
                            !.sql = sql,
                            !.attempt_num = 1]))
  /\ UNCHANGED schema_fixer

GenerateReturns(i, sql) ==
  /\ At(i, "run", "gen_wait")
  /\ Step(i, RunGenerateReturned(inv[i], schema_fixer, sql))
  /\ UNCHANGED schema_fixer

\* what generate_sql may raise
GeneratorExceptions == {ExcConnection, ExcTimedOut}

GenerateRaises(i) ==
  /\ At(i, "run", "gen_wait")
  /\ \E e \in GeneratorExceptions :
        Step(i, RunRaised(inv[i], schema_fixer, "generate", e))
  /\ UNCHANGED schema_fixer

\* lines 326-341: the lookup of the repair round, with limit = 1; a hit
\* is a non-empty list
FindReturns(i) ==
  /\ At(i, "run", "find_wait")
  /\ \E found \in find_applicable_corrections(
                     TRUE, corrections, categorize_error(inv[i].last_error),
                     inv[i].last_error, DatabaseType, 1) :
        Step(i, RunFindReturned(inv[i], found # <<>>))
  /\ UNCHANGED schema_fixer

\* the query of the lookup raises: nothing is found and nothing is stored
FindFails(i) ==
  /\ At(i, "run", "find_wait")
  /\ Step(i, RunFindFailed(inv[i], ExcLocked))
  /\ UNCHANGED schema_fixer

FixReturns(i, sql) ==
  /\ inv[i].pc = "fix_wait"
  /\ Step(i, IF inv[i].mode = "run"
               THEN RunFixReturned(inv[i], schema_fixer, sql)
               ELSE EwrFixReturned(inv[i], sql))
  /\ UNCHANGED schema_fixer

FixRaises(i) ==
  /\ inv[i].pc = "fix_wait"
  /\ Step(i, IF inv[i].mode = "run"
               THEN RunRaised(inv[i], schema_fixer, "fix_error", ExcConnection)
               ELSE EwrRaised(inv[i], "fix_error", ExcConnection))
  /\ UNCHANGED schema_fixer

ExecReturned(i, success, error) ==
  /\ Step(i, IF inv[i].mode = "run"
               THEN RunExecReturned(inv[i], schema_fixer, success, error)
               ELSE EwrExecReturned(inv[i], success, error))
  /\ UNCHANGED schema_fixer

ExecSucceeds(i) ==
  /\ inv[i].pc = "exec_wait"
  /\ ExecReturned(i, TRUE, NoText)

ExecFails(i, error) ==
  /\ inv[i].pc = "exec_wait"
  /\ ExecReturned(i, FALSE, error)

\* the query does not come back
ExecHangs(i) ==
  /\ inv[i].pc = "exec_wait"
  /\ Step(i, [inv[i] EXCEPT !.pc = "exec_hung"])
  /\ UNCHANGED schema_fixer

\* executor.py lines 99-110: wait_for raised asyncio.TimeoutError
ExecTimesOut(i) ==
  /\ inv[i].pc = "exec_hung"
  /\ inv[i].timer
  /\ ExecReturned(i, FALSE, ErrTimeout)

\* lines 388-395 with correction_learner.py lines 64-112: the call stores
\* the correction and returns
LearnReturns(i) ==
  /\ At(i, "run", "learn_wait")
  /\ \E existing \in first_of(similar_corrections(
                                 corrections, inv[i].attempts[1].error_type,
                                 extract_patterns(
                                   inv[i].attempts[1].error_type,
                                   inv[i].attempts[1].sql,
                                   inv[i].attempts[1].error, inv[i].sql),
                                 DatabaseType)) :
        Learned(learn_from_correction(
                  TRUE, corrections, existing,
                  inv[i].attempts[1].error_type, inv[i].attempts[1].sql,
                  inv[i].attempts[1].error, inv[i].sql, DatabaseType, TRUE))
  /\ inv' = [inv EXCEPT ![i] = RunLearnReturned(inv[i])]
  /\ UNCHANGED <<schema_fixer, reply, verification, call, endpoint>>

\* the commit of the correction raises and the rollback succeeds: nothing
\* is stored
LearnFails(i) ==
  /\ At(i, "run", "learn_wait")
  /\ Step(i, RunLearnFailed(inv[i], ExcLocked))
  /\ UNCHANGED schema_fixer

\* correction_learner.py lines 114-116: the rollback in the except clause
\* of learn_from_correction raised
LearnRaises(i) ==
  /\ At(i, "run", "learn_wait")
  /\ Step(i, RunRaised(inv[i], schema_fixer, "learn", ExcConnection))
  /\ UNCHANGED schema_fixer

\* the awaits at which generate_and_execute_with_retry suspends: the
\* learner's coroutines run to their end without suspending
SuspensionPoints == {"gen_wait", "fix_wait", "exec_wait", "exec_hung"}

\* the caller cancels the task that runs the call
Cancel(i) ==
  /\ inv[i].mode = "run"
  /\ inv[i].pc \in SuspensionPoints
  /\ Step(i, RunCancelled(inv[i], schema_fixer))
  /\ UNCHANGED schema_fixer

\* a direct call of learn_from_correction on a learner of the table
CallLearn(enable_learning, c, was_successful) ==
  /\ \E existing \in first_of(similar_corrections(
                                 corrections, c.error_type,
                                 extract_patterns(c.error_type, c.original_sql,
                                                  c.original_error,
                                                  c.corrected_sql),
                                 c.database_type)) :
        /\ Written < MaxLearnerCalls
        /\ existing = NoId => Len(corrections) < MaxCorrections
        /\ Learned(learn_from_correction(
                     enable_learning, corrections, existing, c.error_type,
                     c.original_sql, c.original_error, c.corrected_sql,
                     c.database_type, was_successful))
        /\ reply' = Reply("learn", enable_learning, c, was_successful, 0,
                          learn_from_correction(
                            enable_learning, corrections, existing,
                            c.error_type, c.original_sql, c.original_error,
                            c.corrected_sql, c.database_type,
                            was_successful).id,
                          <<>>, corrections)
  /\ UNCHANGED <<inv, schema_fixer, verification, call, endpoint>>

\* a direct call of apply_learned_correction
CallApply(correction_id, was_successful) ==
  /\ Written < MaxLearnerCalls
  /\ corrections' =
       apply_learned_correction(corrections, correction_id, was_successful)
  /\ tally' =
       IF correction_id \notin 1..Len(corrections) THEN tally
       ELSE IF was_successful
         THEN [tally EXCEPT ![correction_id].applied = @ + 1]
       ELSE [tally EXCEPT ![correction_id].failed = @ + 1]
  /\ reply' = Reply("apply", TRUE, NoCase, was_successful, 0, correction_id,
                    <<>>, corrections)
  /\ UNCHANGED <<inv, schema_fixer, verification, call, endpoint>>

\* a direct call of find_applicable_corrections
CallFind(enable_learning, c, limit) ==
  /\ \E found \in find_applicable_corrections(
                     enable_learning, corrections, c.error_type,
                     c.original_error, c.database_type, limit) :
        reply' = Reply("find", enable_learning, c, FALSE, limit, NoId, found,
                       corrections)
  /\ UNCHANGED <<inv, schema_fixer, corrections, tally, verification, call,
               endpoint>>

\* the state after construction, the table being one of stores
InitWith(stores) ==
  /\ inv = [i \in Invs |-> IdleInvocation]
  /\ schema_fixer = NoFixer
  /\ corrections \in stores
  /\ tally = [id \in 1..Len(corrections) |->
               [base |-> corrections[id].times_applied, learned |-> 0,
                applied |-> 0, failed |-> 0]]
  /\ reply = NoReply
  /\ verification = NoVerification
  /\ call = NoCall
  /\ endpoint = NoEndpoint

\* an agent whose learner, if it has one, finds the table empty or filled
Init == InitWith({<<>>, PairStore})

GenerateSteps(i) ==
  \/ \E sql \in GeneratedSql : GenerateReturns(i, sql)
  \/ GenerateRaises(i)

FixSteps(i) ==
  \/ \E sql \in GeneratedSql : FixReturns(i, sql)
  \/ FixRaises(i)

ExecutorSteps(i) ==
  \/ ExecSucceeds(i)
  \/ \E error \in ExecErrors : ExecFails(i, error)
  \/ ExecHangs(i)
  \/ ExecTimesOut(i)

LearnerSteps(i) ==
  \/ FindReturns(i)
  \/ LearnReturns(i)
  \/ LearnRaises(i)

\* the failures of the learner's store that the learner catches itself
StorageFailures(i) ==
  \/ FindFails(i)
  \/ LearnFails(i)

\* one call of either entry point on one agent
Next ==
  \/ \E n \in 0..MaxRetriesBound, f, l \in BOOLEAN, sc \in Schemas,
        se \in Sessions :
       StartRun(1, n, f, l, sc, se)
  \/ \E n \in 0..MaxRetriesBound, f, l \in BOOLEAN, sc \in Schemas,
        se \in Sessions, sql \in GeneratedSql :
       StartEwr(1, n, f, l, sc, se, sql)
  \/ GenerateSteps(1)
  \/ FixSteps(1)
  \/ ExecutorSteps(1)
  \/ LearnerSteps(1)
  \/ Cancel(1)

Spec == Init /\ [][Next]_vars

\* one call of generate_and_execute_with_retry on an agent whose learner
\* works on a store that may fail at any call
NextStorage ==
  \/ \E n \in 0..PairRetriesBound, f \in BOOLEAN, sc \in Schemas :
       StartRun(1, n, f, TRUE, sc, "async")
  \/ GenerateSteps(1)
  \/ FixSteps(1)
  \/ ExecutorSteps(1)
  \/ LearnerSteps(1)
  \/ StorageFailures(1)

SpecStorage == Init /\ [][NextStorage]_vars

\* PostgreSQL: relation "30" does not exist (a quoted name that is no
\* identifier)

SqlTypoId == <<"select", "id", "from", "prodcuts">>
SqlGoodId == <<"select", "id", "from", "products">>
SqlOrdrs == <<"select", "*", "from", "ordrs">>
SqlOrders == <<"select", "*", "from", "orders">>

\* the corrections the callers of the learner report
LearnCases ==
  {Case(TABLE_NOT_FOUND, SqlTypo, ErrRelation, SqlGood, "postgresql"),
   Case(TABLE_NOT_FOUND, SqlTypoId, ErrRelation, SqlGoodId, "postgresql"),
   Case(TABLE_NOT_FOUND, SqlOrdrs, ErrRelationOrdrs, SqlOrders, "postgresql"),
   Case(TABLE_NOT_FOUND, SqlNumeral, ErrRelationNumeral, SqlGood, "postgresql"),
   Case(COLUMN_NOT_FOUND, SqlPric, ErrColumn, SqlPrice, "postgresql"),
   Case(TABLE_NOT_FOUND, SqlTypo, ErrRelation, SqlGood, "mysql")}

Limits == {1, 5}

\* callers of the learner on the shared table, each call running to its
\* commit before the next starts: the coroutines of the learner await
\* nothing that suspends them
NextLearner ==
  \/ \E e, ok \in BOOLEAN, c \in LearnCases : CallLearn(e, c, ok)
  \/ \E id \in 1..(MaxCorrections + 1), ok \in BOOLEAN : CallApply(id, ok)
  \/ \E e \in BOOLEAN, c \in LearnCases, limit \in Limits :
       CallFind(e, c, limit)

InitLearner == InitWith(InitialStores)

SpecLearner == InitLearner /\ [][NextLearner]_vars

\* a caller that lets generate_and_execute_with_retry finish and then hands
\* the SQL that generate_sql had returned to execute_with_retry, on the same
\* agent (one without a learner), schema and session
StartEwrAfterRun ==
  /\ Done(1)
  /\ inv[1].trace[1].op = "generate"
  /\ inv[1].trace[1].ok
  /\ StartEwr(2, inv[1].max_retries, inv[1].enable_schema_fixes,
              inv[1].has_learner, inv[1].schema, inv[1].session,
              inv[1].trace[1].sql)

NextPair ==
  \/ \E n \in 1..PairRetriesBound, f \in BOOLEAN :
       StartRun(1, n, f, FALSE, SchemaShop, "async")
  \/ GenerateSteps(1)
  \/ FixSteps(1)
  \/ ExecutorSteps(1)
  \/ StartEwrAfterRun
  \/ FixSteps(2)
  \/ ExecutorSteps(2)

\* the agent of the paired calls has no learner
InitPair == InitWith({<<>>})

SpecPair == InitPair /\ [][NextPair]_vars

\* lines 398-407 and 437-447: the dict that
\* generate_and_execute_with_retry returns, without the keys result,
\* question, model_used and message
RunDict(result) ==
  IF result.success
    THEN [success |-> result.success, sql |-> TextValue(result.sql),
          attempts |-> ListValue(result.attempts),
          self_corrected |-> result.self_corrected,
          total_attempts |-> IntValue(result.total_attempts)]
    ELSE [success |-> result.success, sql |-> TextValue(result.sql),
          error |-> TextValue(result.error),
          attempts |-> ListValue(result.attempts),
          self_corrected |-> result.self_corrected,
          total_attempts |-> IntValue(result.total_attempts)]

\* lines 522-529 and 577-584: the dict that execute_with_retry returns,
\* without the key result
EwrDict(result) ==
  IF result.success
    THEN [success |-> result.success, sql |-> TextValue(result.sql),
          corrections |-> ListValue(result.attempts),
          attempts |-> IntValue(result.total_attempts),
          self_corrected |-> result.self_corrected]
    ELSE [success |-> result.success, sql |-> TextValue(result.sql),
          final_error |-> TextValue(result.error),
          corrections |-> ListValue(result.attempts),
          attempts |-> IntValue(result.total_attempts),
          self_corrected |-> result.self_corrected]

\* dict.get(key, default)
Get(dict, key, default) ==
  IF key \in DOMAIN dict THEN dict[key] ELSE default

UnknownError == <<"Unknown", "error">>

\* multi_db_handler.py lines 258-284: the dict built from the agent's
FromAgent(dict) ==
  HandlerResult(dict.success,
                IF dict.success THEN Missing
                ELSE Get(dict, "final_error", TextValue(UnknownError)),
                dict.sql.text,
                Get(dict, "attempts", IntValue(0)),
                Get(dict, "corrections", ListValue(<<>>)))

\* multi_db_handler.py lines 238-284, once the agent has returned
execute_query_with_self_correction(r) ==
  FromAgent(IF r.mode = "ewr" THEN EwrDict(r.result) ELSE RunDict(r.result))

\* multi_db_handler.py lines 232-256: the handler builds an agent with
\* max_retries, the defaults enable_schema_fixes = True and no learner
\* session, and calls it with the initial SQL or without
HandlerCalls(i, max_retries, schema, session, initial_sql) ==
  IF initial_sql = NoneSql
    THEN StartRun(i, max_retries, TRUE, FALSE, schema, session)
    ELSE StartEwr(i, max_retries, TRUE, FALSE, schema, session, initial_sql)

\* the agent has returned to the handler, which returns
HandlerReturns(i) ==
  /\ Done(i)
  /\ ~inv[i].handled.returned
  /\ Step(i, [inv[i] EXCEPT
                !.handled = execute_query_with_self_correction(inv[i])])
  /\ UNCHANGED schema_fixer

\* one call of execute_query_with_self_correction
NextHandler ==
  \/ \E n \in 1..MaxRetriesBound, sc \in Schemas, se \in Sessions,
        sql \in GeneratedSql \cup {NoneSql} :
       HandlerCalls(1, n, sc, se, sql)
  \/ GenerateSteps(1)
  \/ FixSteps(1)
  \/ ExecutorSteps(1)
  \/ HandlerReturns(1)

SpecHandler == InitPair /\ [][NextHandler]_vars

\* ------------------------------------------------------------------------
\* The query endpoint
\* ------------------------------------------------------------------------

Connections == {"A", "B"}

\* max_retries of the agent that process_query builds
EndpointMaxRetries == 3

\* connections.py: the user makes a connection the active one
Activate(connection) ==
  /\ endpoint.active # connection
  /\ endpoint' = [endpoint EXCEPT !.active = connection]
  /\ UNCHANGED <<inv, schema_fixer, corrections, tally, reply, verification,
                 call>>

\* the key of the request in progress
RequestKey ==
  CacheKey(endpoint.request.question, endpoint.request.database_type)

\* query.py lines 50-66: a request arrives; with use_cache a cached value
\* is returned with cached = True
ProcessQuery(question, database_type, use_cache) ==
  /\ endpoint.request.pc \in {"idle", "done"}
  /\ endpoint' =
       IF use_cache
          /\ endpoint.cache[CacheKey(question, database_type)] # NoResponse
         THEN [endpoint EXCEPT
                 !.request =
                    [QueryRequest(question, database_type, use_cache, "done")
                       EXCEPT !.connection = endpoint.active],
                 !.response =
                    [endpoint.cache[CacheKey(question, database_type)]
                       EXCEPT !.cached = TRUE]]
         ELSE [endpoint EXCEPT
                 !.request =
                    QueryRequest(question, database_type, use_cache,
                                 "connection"),
                 !.response = NoResponse]
  /\ UNCHANGED <<inv, schema_fixer, corrections, tally, reply, verification,
                 call>>

\* query.py lines 80-91 and 196-201: no connection is active
NoActiveConnection ==
  /\ endpoint.request.pc = "connection"
  /\ endpoint.active = "None"
  /\ endpoint' = [endpoint EXCEPT !.request.pc = "done",
                                  !.response = ServerError]
  /\ UNCHANGED <<inv, schema_fixer, corrections, tally, reply, verification,
                 call>>

\* query.py lines 80-120: the active connection is read, its schema taken
\* from the request or from the database, and the agent built and called
CallAgent(schema, session) ==
  /\ endpoint.request.pc = "connection"
  /\ endpoint.active # "None"
  /\ inv[1].mode = "idle"
  /\ endpoint' = [endpoint EXCEPT !.request.pc = "agent",
                                  !.request.connection = endpoint.active]
  /\ schema_fixer' = FixerOf(TRUE, schema)
  /\ inv' = [inv EXCEPT
               ![1] = StartedRun(EndpointMaxRetries, TRUE, FALSE, schema,
                                 session, schema_fixer')]
  /\ UNCHANGED <<corrections, tally, reply, verification, call>>

\* query.py lines 122-176: the response built from the agent's result
ResponseOf(request, result) ==
  QueryResponse(request.question, result.sql, result.success,
                IF result.success THEN RowsFrom(request.connection)
                ELSE NoRows,
                FALSE)

\* query.py lines 122-196: the agent has returned; the response is built,
\* cached when the request asks for it and the run succeeded, and returned
Respond ==
  /\ endpoint.request.pc = "agent"
  /\ Done(1)
  /\ endpoint' =
       [endpoint EXCEPT
          !.request.pc = "done",
          !.response = ResponseOf(endpoint.request, inv[1].result),
          !.cache =
             IF endpoint.request.use_cache /\ inv[1].result.success
               THEN [@ EXCEPT ![RequestKey] =
                                ResponseOf(endpoint.request, inv[1].result)]
               ELSE @]
  /\ inv' = [inv EXCEPT ![1] = IdleInvocation]
  /\ schema_fixer' = NoFixer
  /\ UNCHANGED <<corrections, tally, reply, verification, call>>

\* redis_client.py: the time-to-live of a cached value has passed
Expire(key) ==
  /\ endpoint.cache[key] # NoResponse
  /\ endpoint' = [endpoint EXCEPT !.cache[key] = NoResponse]
  /\ UNCHANGED <<inv, schema_fixer, corrections, tally, reply, verification,
                 call>>

\* requests served one after the other, the user switching connections
NextEndpoint ==
  \/ \E connection \in Connections : Activate(connection)
  \/ \E question \in AskedQuestions, database_type \in RequestTypes,
        use_cache \in BOOLEAN :
       ProcessQuery(question, database_type, use_cache)
  \/ NoActiveConnection
  \/ CallAgent(SchemaFreeText, "async")
  \/ \E sql \in GeneratedSql : GenerateReturns(1, sql)
  \/ FixReturns(1, SqlGood)
  \/ ExecSucceeds(1)
  \/ ExecFails(1, ErrRelation)
  \/ Respond
  \/ \E key \in CacheKeys : Expire(key)

SpecEndpoint == InitPair /\ [][NextEndpoint]_vars

\* a schema snapshot of another database: it has no table products
SchemaOrders ==
  [parsable |-> TRUE,
   tables |-> <<"orders">>,
   columns |-> [orders |-> <<"id", "total">>]]

\* the snapshots the two callers hand in
SharedSchemas == {SchemaShop, SchemaOrders, SchemaFreeText}

\* the steps of one of two calls that overlap on one agent
SharedSteps(i) ==
  \/ \E n \in 1..PairRetriesBound, sc \in SharedSchemas :
       StartRun(i, n, TRUE, FALSE, sc, "async")
  \/ \E sql \in GeneratedSql : GenerateReturns(i, sql)
  \/ FixReturns(i, SqlGood)
  \/ ExecSucceeds(i)
  \/ ExecFails(i, ErrRelation)

\* two calls of generate_and_execute_with_retry on the same agent, built
\* with enable_schema_fixes = True and no learner, each suspended at its
\* awaits while the other runs
NextShared ==
  \/ SharedSteps(1)
  \/ SharedSteps(2)

SpecShared == InitPair /\ [][NextShared]_vars

\* the values of a result: None, zero, a small, a negative and a
\* negative extreme number
Values ==
  {Null, Number(0), Number(5), Number(0 - 3),
   Number(0 - 2 * ExtremeValueThreshold)}

\* the column lists of a result
ColumnLists == {<<"order_count">>, <<"n">>, <<"n", "order_count">>}

\* the rows with the given columns
RowsOf(columns) ==
  {[c \in 1..Len(columns) |-> Cell(columns[c], vals[c])] :
     vals \in [1..Len(columns) -> Values]}

\* the data of a result: up to max_rows rows with the same columns
Datas(max_rows) ==
  UNION {UNION {[1..n -> RowsOf(columns)] : n \in 0..max_rows} :
           columns \in ColumnLists}

SqlCount ==
  <<"select", "count(*)", "as", "order_count", "from", "orders">>

\* the count under an alias without "count" in it
SqlCountN == <<"select", "count(*)", "as", "n", "from", "orders">>

Questions ==
  {<<"how", "many", "orders">>, <<"list", "the", "orders">>,
   <<"show", "accounts">>}

\* the results callers hand in: the endpoint passes the client's result
\* on, whose row_count need not be the number of rows
ExecutionResults(max_rows) ==
  {ExecutionResult(TRUE, data, 0) : data \in Datas(max_rows)}
  \cup {ExecutionResult(TRUE, data, Len(data)) : data \in Datas(max_rows)}
  \cup {ExecutionResult(TRUE, <<>>, 1)}
  \cup {ExecutionResult(FALSE, data, Len(data)) : data \in Datas(1)}

SqlJoin == <<"select", "*", "from", "orders", "join", "products">>
SqlSelfJoin == <<"select", "*", "from", "orders", "JOIN", "orders">>
SqlJoinCased == <<"select", "*", "FROM", "Products", "join", "products">>

\* SQL naming two tables, one table twice, a table in two spellings and
\* no table that the pattern finds
JoinSqls == {SqlJoin, SqlSelfJoin, SqlJoinCased, SqlNumeral}

InitVerify ==
  /\ inv = [i \in Invs |-> IdleInvocation]
  /\ schema_fixer = NoFixer
  /\ corrections = <<>>
  /\ tally = <<>>
  /\ reply = NoReply
  /\ call = NoCall
  /\ endpoint = NoEndpoint
  /\ verification \in
       {Verification(question, sql, result, TRUE, Passed) :
          question \in Questions, sql \in {SqlCount, SqlGood},
          result \in ExecutionResults(MaxRows)}
       \cup {Verification(<<"list", "the", "orders">>, sql, result, TRUE,
                          Passed) :
               sql \in JoinSqls, result \in ExecutionResults(1)}
       \cup {Verification(question, SqlCountN, result, TRUE, Passed) :
               question \in Questions, result \in ExecutionResults(1)}

\* verify_results returns; the diagnostic queries are those of
\* _check_empty_result when that is the check that returned
VerifyReturns ==
  /\ verification.pending
  /\ \E tables \in extract_table_names(verification.sql) :
        verification' =
          [verification EXCEPT
             !.pending = FALSE,
             !.verdict = verify_results(verification.question,
                                        verification.sql, verification.result),
             !.diagnostic_queries =
                IF verify_results(verification.question, verification.sql,
                                  verification.result).issue_type
                     = EMPTY_RESULT
                  THEN Queries(check_empty_result(tables))
                  ELSE NoQueries]
  /\ UNCHANGED <<inv, schema_fixer, corrections, tally, reply, call, endpoint>>

NextVerify == VerifyReturns

SpecVerify == InitVerify /\ [][NextVerify]_vars

\* ------------------------------------------------------------------------
\* run_diagnostics
\* ------------------------------------------------------------------------

DiagnosisDisabled == "Diagnostics disabled"
DiagnosisEmpty ==
  "Table exists but is empty. The query is correct but there's no data to return."
DiagnosisInaccessible == "Table does not exist or is not accessible."
DiagnosisHasData ==
  "Table exists and has data. The query logic might need adjustment."

\* lines 455-461: the diagnosis of the findings
Diagnose(d) ==
  [d EXCEPT !.diagnosis =
     IF ~d.table_has_data THEN DiagnosisEmpty
     ELSE IF ~d.table_exists THEN DiagnosisInaccessible
     ELSE DiagnosisHasData]

\* line 429: a list of diagnostic queries that is neither None nor empty
HasQueries(q) == q.given /\ q.list # <<>>

\* lines 434-449: execute_query returned success for the query
QuerySucceeded(d, query, data) ==
  IF is_count_query(query)
    THEN IF Len(data) > 0
           THEN [d EXCEPT !.row_count = data[1][1].val,
                          !.table_has_data = data[1][1].val.n > 0]
           ELSE d
    ELSE [d EXCEPT !.sample_data = [given |-> TRUE, data |-> data]]

\* lines 450-455: execute_query returned an error, or raised
QueryFailed(d) == [d EXCEPT !.table_exists = FALSE]

\* run_diagnostics after the diagnostic query has ended: the next query,
\* or the diagnosis and the return
AfterQuery(v, outcome, d) ==
  [v EXCEPT
     !.diagnostics =
        [@ EXCEPT
           !.executed =
              Append(@, [query |-> v.diagnostic_queries.list[Len(@) + 1],
                         outcome |-> outcome]),
           !.pc = IF Len(v.diagnostics.executed) + 1
                       = Len(v.diagnostic_queries.list)
                    THEN "done" ELSE "running",
           !.result = IF Len(v.diagnostics.executed) + 1
                           = Len(v.diagnostic_queries.list)
                        THEN Diagnose(d) ELSE d]]

\* the query that run_diagnostics awaits
AwaitedQuery ==
  verification.diagnostic_queries.list[
    Len(verification.diagnostics.executed) + 1]

\* lines 409-430: the caller hands the VerificationResult to run_diagnostics
RunDiagnostics(enable_diagnostics) ==
  /\ ~verification.pending
  /\ verification.diagnostics.pc = "idle"
  /\ verification' =
       [verification EXCEPT
          !.diagnostics =
             IF ~enable_diagnostics
               THEN [@ EXCEPT
                       !.pc = "done",
                       !.enable_diagnostics = FALSE,
                       !.result =
                          [DiagnosticResult(TRUE, TRUE, TRUE) EXCEPT
                             !.diagnosis = DiagnosisDisabled]]
             ELSE IF HasQueries(verification.diagnostic_queries)
               THEN [@ EXCEPT !.pc = "running"]
             ELSE [@ EXCEPT
                     !.pc = "done",
                     !.result = Diagnose(DiagnosticResult(TRUE, TRUE, TRUE))]]
  /\ UNCHANGED <<inv, schema_fixer, corrections, tally, reply, call, endpoint>>

\* what a diagnostic query may return: no row, a count, rows of a table
DiagnosticDatas(query) ==
  IF is_count_query(query)
    THEN {<<>>, <<<<Cell("count", Number(0))>>>>,
          <<<<Cell("count", Number(5))>>>>}
    ELSE {<<>>, <<<<Cell("id", Number(5))>>>>}

DiagnosticQuerySucceeds ==
  /\ verification.diagnostics.pc = "running"
  /\ \E data \in DiagnosticDatas(AwaitedQuery) :
        verification' =
          AfterQuery(verification, "success",
                     QuerySucceeded(verification.diagnostics.result,
                                    AwaitedQuery, data))
  /\ UNCHANGED <<inv, schema_fixer, corrections, tally, reply, call, endpoint>>

\* executor.py: execute_query returns success = False with the error
DiagnosticQueryFails ==
  /\ verification.diagnostics.pc = "running"
  /\ verification' =
       AfterQuery(verification, "error",
                  QueryFailed(verification.diagnostics.result))
  /\ UNCHANGED <<inv, schema_fixer, corrections, tally, reply, call, endpoint>>

\* lines 453-455: execute_query raised
DiagnosticQueryRaises ==
  /\ verification.diagnostics.pc = "running"
  /\ verification' =
       AfterQuery(verification, "raised",
                  QueryFailed(verification.diagnostics.result))
  /\ UNCHANGED <<inv, schema_fixer, corrections, tally, reply, call, endpoint>>

\* verify_results on results with and without rows, then run_diagnostics
InitDiagnostics ==
  /\ inv = [i \in Invs |-> IdleInvocation]
  /\ schema_fixer = NoFixer
  /\ corrections = <<>>
  /\ tally = <<>>
  /\ reply = NoReply
  /\ call = NoCall
  /\ endpoint = NoEndpoint
  /\ verification \in
       {Verification(<<"list", "the", "orders">>, sql, result, TRUE, Passed) :
          sql \in JoinSqls \cup {SqlGood},
          result \in {ExecutionResult(TRUE, <<>>, 0),
                      ExecutionResult(TRUE, <<<<Cell("n", Number(5))>>>>, 1)}}

NextDiagnostics ==
  \/ VerifyReturns
  \/ \E enable_diagnostics \in BOOLEAN : RunDiagnostics(enable_diagnostics)
  \/ DiagnosticQuerySucceeds
  \/ DiagnosticQueryFails
  \/ DiagnosticQueryRaises

SpecDiagnostics == InitDiagnostics /\ [][NextDiagnostics]_vars

\* ------------------------------------------------------------------------
\* Calls of the fixer, the fuzzy matcher and the classifier on their own
\* ------------------------------------------------------------------------

\* PostgreSQL, DuckDB and SQLite reporting that table t is missing
RelationError(t) == <<"relation", Quote, t, Quote, "does", "not", "exist">>
DuckDBError(t) ==
  <<"catalog", "error", ":", "table", "with", "name", t, "does", "not",
    "exist", "!">>
SqliteError(t) == <<"no", "such", "table", ":", t>>

TableErrors(t) == {RelationError(t), DuckDBError(t), SqliteError(t)}

\* the names of missing tables: close to a table of the schema, half
\* close, far from all, and a table of the schema in another case
MissingTables == {"prodcuts", "PRODCUTS", "prod", "total", "Products"}

\* a schema with no tables
SchemaEmpty ==
  [parsable |-> TRUE, tables |-> <<>>, columns |-> [none |-> <<>>]]

Fixers == {SchemaAwareFixer(SchemaShop), SchemaAwareFixer(SchemaEmpty)}

\* quick_fix as the run calls it (lines 296-306), with the context of
\* extract_error_context, and as a caller with no context calls it
QuickFixCalls ==
  UNION {{Call("quick_fix", t, NoName, <<"select", "*", "from", t>>, e,
               fixer, context) :
            fixer \in Fixers,
            context \in {NoContext,
                         extract_error_context(e, categorize_error(e))}} :
         <<t, e>> \in UNION {{<<t, e>> : e \in TableErrors(t)} :
                               t \in MissingTables}}

\* the characters that are not word characters (\w is [a-zA-Z0-9_])
NonWordChars == {" ", ".", ",", "'", "*", "="}

IsWordChar(c) == c \notin NonWordChars

\* str.lower() of a character; the upper-case letters of the model
LowerChar(c) ==
  CASE c = "U" -> "u"
    [] c = "S" -> "s"
    [] c = "E" -> "e"
    [] c = "R" -> "r"
    [] c = "P" -> "p"
    [] OTHER -> c

LowerChars(chars) == [i \in 1..Len(chars) |-> LowerChar(chars[i])]

\* \b before position i: of the characters at i - 1 and at i exactly one
\* is a word character (there is none outside the text)
WordBoundary(chars, i) ==
  (i - 1 >= 1 /\ IsWordChar(chars[i - 1]))
    # (i <= Len(chars) /\ IsWordChar(chars[i]))

\* the name occurs at position i, in any case
OccursAt(chars, old_name, i) ==
  /\ i + Len(old_name) - 1 <= Len(chars)
  /\ LowerChars(SubSeq(chars, i, i + Len(old_name) - 1))
       = LowerChars(old_name)

\* the pattern without the two \b
MatchesInside(chars, old_name, i) == OccursAt(chars, old_name, i)

\* r'\b' + re.escape(old_name) + r'\b' with re.IGNORECASE matches at i
MatchesAt(chars, old_name, i) ==
  /\ OccursAt(chars, old_name, i)
  /\ WordBoundary(chars, i)
  /\ WordBoundary(chars, i + Len(old_name))

\* re.sub from position i on: the leftmost matches, none overlapping
RECURSIVE SubFrom(_, _, _, _)
SubFrom(chars, old_name, new_name, i) ==
  IF i > Len(chars) THEN <<>>
  ELSE IF MatchesAt(chars, old_name, i)
    THEN new_name \o SubFrom(chars, old_name, new_name, i + Len(old_name))
  ELSE <<chars[i]>> \o SubFrom(chars, old_name, new_name, i + 1)

\* _replace_table_name and _replace_column_name on the characters of the
\* SQL (replace_name is the same on words)
replace_table_name(sql, old_name, new_name) ==
  SubFrom(sql, old_name, new_name, 1)

\* select username from User
CharsUsername ==
  <<"s", "e", "l", "e", "c", "t", " ", "u", "s", "e", "r", "n", "a",
   "m", "e", " ", "f", "r", "o", "m", " ", "U", "s", "e", "r">>
\* user.id,user_id 'USER'
CharsQualified ==
  <<"u", "s", "e", "r", ".", "i", "d", ",", "u", "s", "e", "r", "_",
   "i", "d", " ", "'", "U", "S", "E", "R", "'">>
\* from prodcuts p
CharsProdcuts ==
  <<"f", "r", "o", "m", " ", "p", "r", "o", "d", "c", "u", "t", "s",
   " ", "p">>
\* name=rename
CharsRename ==
  <<"n", "a", "m", "e", "=", "r", "e", "n", "a", "m", "e">>

CharsUser == <<"u", "s", "e", "r">>
CharsName == <<"n", "a", "m", "e">>
CharsCustomer == <<"c", "u", "s", "t", "o", "m", "e", "r">>

\* the wrong names: lines 193-200 and 244-249 give _replace_table_name and
\* _replace_column_name a name that one of the patterns captured, an
\* identifier
WrongNames == {CharsUser, CharsName, Spelling.prodcuts}

\* the names of the schema, one of them with a capital
SchemaNames == {CharsCustomer, <<"P">> \o Tail(Spelling.products)}

ReplaceCalls ==
  {[Call("replace", NoName, NoName, sql, NoText, NoFixer, NoContext)
      EXCEPT !.old_name = old_name, !.new_name = new_name] :
     old_name \in WrongNames, new_name \in SchemaNames,
     sql \in {CharsUsername, CharsQualified, CharsProdcuts, CharsRename}}

\* column "<name>" does not exist
ColumnError(name) ==
  <<"column", Quote, name, Quote, "does", "not", "exist">>

\* operator does not exist: <type> = <type>
OperatorError(left, right) ==
  <<"operator", "does", "not", "exist", ":", left, "=", right>>

\* the error texts handed to categorize_error: the messages of the
\* databases about tables, columns, operators, functions and types, a
\* syntax error that quotes a name, and errors of the other kinds
ClassifiedErrors ==
  {RelationError("prodcuts"), DuckDBError("prodcuts"),
   SqliteError("prodcuts"), ColumnError("pric"), ColumnError("total"),
   OperatorError("integer", "text"), OperatorError("text", "integer"),
   <<"function", Quote, "prod", Quote, "does", "not", "exist">>,
   <<"syntax", "error", ":", Quote, "prod", Quote, "does", "not", "exist">>,
   <<"unexpected", "token", Quote, "prod", Quote, "does", "not", "exist">>,
   <<"role", "does", "not", "exist">>,
   ErrNoColumn, ErrSyntax, ErrTimeout, ExcConnection, ExcUnbound,
   <<"invalid", "cast", "to", "integer">>}

ClassifyCalls ==
  {Call("categorize_error", NoName, NoName, NoText, e, NoFixer, NoContext) :
     e \in ClassifiedErrors}

\* the names given to similarity: the spelled names and two of them in
\* another letter case
ComparedNames == SpelledNames \cup {"Products", "PRODCUTS"}

SimilarityCalls ==
  {Call("similarity", a, b, NoText, NoText, NoFixer, NoContext) :
     a \in ComparedNames, b \in ComparedNames}

InitCalls ==
  /\ inv = [i \in Invs |-> IdleInvocation]
  /\ schema_fixer = NoFixer
  /\ corrections = <<>>
  /\ tally = <<>>
  /\ reply = NoReply
  /\ verification = NoVerification
  /\ endpoint = NoEndpoint
  /\ call \in QuickFixCalls \cup ReplaceCalls \cup ClassifyCalls
              \cup SimilarityCalls

\* quick_fix returns
QuickFixReturns ==
  /\ call.pending
  /\ call.fn = "quick_fix"
  /\ call' = [call EXCEPT
                !.pending = FALSE,
                !.quickfix = quick_fix(call.fixer, call.sql,
                                       categorize_error(call.error_message),
                                       call.error_message, call.context)]
  /\ UNCHANGED <<inv, schema_fixer, corrections, tally, reply, verification,
               endpoint>>

\* _replace_table_name returns
ReplaceReturns ==
  /\ call.pending
  /\ call.fn = "replace"
  /\ call' = [call EXCEPT
                !.pending = FALSE,
                !.text = replace_table_name(call.sql, call.old_name,
                                            call.new_name)]
  /\ UNCHANGED <<inv, schema_fixer, corrections, tally, reply, verification,
               endpoint>>

\* categorize_error returns
ClassifyReturns ==
  /\ call.pending
  /\ call.fn = "categorize_error"
  /\ call' = [call EXCEPT
                !.pending = FALSE,
                !.error_type = categorize_error(call.error_message)]
  /\ UNCHANGED <<inv, schema_fixer, corrections, tally, reply, verification,
               endpoint>>

\* similarity(a, b) returns, and similarity(b, a)
SimilarityReturns ==
  /\ call.pending
  /\ call.fn = "similarity"
  /\ call' = [call EXCEPT
                !.pending = FALSE,
                !.score = similarity(call.a, call.b),
                !.swapped = similarity(call.b, call.a)]
  /\ UNCHANGED <<inv, schema_fixer, corrections, tally, reply, verification,
               endpoint>>

NextCalls ==
  \/ QuickFixReturns
  \/ ReplaceReturns
  \/ ClassifyReturns
  \/ SimilarityReturns

SpecCalls == InitCalls /\ [][NextCalls]_vars

\* ------------------------------------------------------------------------
\* Properties of generate_and_execute_with_retry
\* ------------------------------------------------------------------------

Runs == {i \in Invs : inv[i].mode = "run"}

\* the positions of the completed calls of one collaborator operation
Calls(i, op) == {k \in 1..Len(inv[i].trace) : inv[i].trace[k].op = op}

\* no call of execute_query has succeeded so far
ExecutionAlwaysFailed(i) ==
  \A k \in Calls(i, "execute") : ~inv[i].trace[k].ok

\* generate_sql and fix_sql_error have returned whenever they were called
GeneratorAlwaysReturned(i) ==
  \A k \in Calls(i, "generate") \cup Calls(i, "fix_error") :
     inv[i].trace[k].ok

\* C1: retry bound. A run makes at most max_retries calls of execute_query.
\* While every execution fails the attempts list never has more than
\* max_retries entries, whatever generate_sql and fix_sql_error return or
\* raise, and the run ends with success = false, total_attempts =
\* max_retries and exactly max_retries entries in attempts; when the
\* generator returns on every call each of the entries is an execution.
C1_RetryBound ==
  \A i \in Runs :
    /\ Cardinality(Calls(i, "execute")) <= inv[i].max_retries
    /\ ExecutionAlwaysFailed(i) =>
         /\ Len(inv[i].attempts) <= inv[i].max_retries
         /\ Done(i) =>
              /\ ~inv[i].result.success
              /\ inv[i].result.total_attempts = inv[i].max_retries
              /\ Len(inv[i].result.attempts) = inv[i].max_retries
              /\ GeneratorAlwaysReturned(i) =>
                   Cardinality(Calls(i, "execute")) = inv[i].max_retries

\* a run of two or more attempts whose executions all failed has ended
C1_Witness ==
  \E i \in Runs :
    /\ Done(i)
    /\ inv[i].max_retries >= 2
    /\ ExecutionAlwaysFailed(i)
    /\ GeneratorAlwaysReturned(i)
    /\ Cardinality(Calls(i, "execute")) = inv[i].max_retries
    /\ Calls(i, "fix_error") # {}

\* C2: the attempts list holds at most one successful attempt, and a
\* successful attempt is the last entry: nothing is appended after it.
C2_SuccessIsLast ==
  \A i \in Runs :
    \A k \in 1..Len(inv[i].attempts) :
       inv[i].attempts[k].success => k = Len(inv[i].attempts)

\* the failures a collaborator reported or raised
Failures(i) ==
  {k \in 1..Len(inv[i].trace) :
     /\ inv[i].trace[k].op \in {"generate", "fix_error", "execute", "learn"}
     /\ ~inv[i].trace[k].ok}

\* C3: no failure escapes the run as an exception. Every failure that a
\* collaborator returned or raised is recorded as a failed attempt of the
\* iteration it happened in, carrying its text, and the run ends only with
\* a success or after max_retries iterations, with a structured result.
C3_FailuresAreCaptured ==
  \A i \in Runs :
    /\ inv[i].pc # "raised"
    /\ \A k \in Failures(i) :
         \E a \in 1..Len(inv[i].attempts) :
            /\ inv[i].attempts[a].attempt_number = inv[i].trace[k].attempt
            /\ ~inv[i].attempts[a].success
            /\ inv[i].attempts[a].error = inv[i].trace[k].error
    /\ Done(i) =>
         \/ inv[i].result.success
         \/ /\ inv[i].attempt_num >= inv[i].max_retries
            /\ Len(inv[i].result.attempts) >= inv[i].max_retries
            /\ inv[i].result.attempts = inv[i].attempts

\* a run in which generate_sql raised, a later repair raised too, and which
\* ended with a failure result
C3_Witness ==
  \E i \in Runs :
    /\ Done(i)
    /\ ~inv[i].result.success
    /\ \E k \in Failures(i) : inv[i].trace[k].op = "generate"
    /\ \E k \in Failures(i) : inv[i].trace[k].op = "fix_error"
    /\ Len(inv[i].attempts) >= 2

Trace(i) == inv[i].trace

\* the event that follows event k, the collaborator call that is pending
\* when k is the last event
FollowedByExecute(i, k, sql) ==
  IF k < Len(Trace(i))
    THEN /\ Trace(i)[k + 1].op = "execute"
         /\ Trace(i)[k + 1].attempt = Trace(i)[k].attempt
         /\ Trace(i)[k + 1].arg = sql
    ELSE /\ inv[i].pc \in {"exec_wait", "exec_hung"}
         /\ inv[i].attempt_num = Trace(i)[k].attempt
         /\ inv[i].sql = sql

\* the fixer exists when the repair round of a run consults it
FixerConsulted(i) ==
  inv[i].enable_schema_fixes /\ inv[i].schema.parsable

\* C4: cost-ordered repair cascade. In every repair round the fixer, when
\* there is one, is consulted before the learner and before fix_sql_error;
\* a quick fix that is adopted is executed in the same attempt without a
\* learner lookup or a fix_sql_error call; otherwise fix_sql_error is called
\* exactly once in the round and the SQL it returns is executed.
C4_CascadeOrder ==
  \A i \in Runs :
    /\ \A k \in Calls(i, "quick_fix") :
         /\ Trace(i)[k].attempt > 1
         /\ k > 1 /\ Trace(i)[k - 1].attempt < Trace(i)[k].attempt
         /\ Trace(i)[k].ok => FollowedByExecute(i, k, Trace(i)[k].sql)
    /\ \A k \in Calls(i, "find") \cup Calls(i, "fix_error") :
         /\ Trace(i)[k].attempt > 1
         /\ FixerConsulted(i) =>
              \E q \in Calls(i, "quick_fix") :
                 /\ q < k
                 /\ Trace(i)[q].attempt = Trace(i)[k].attempt
                 /\ ~Trace(i)[q].ok
    /\ \A k, l \in Calls(i, "fix_error") :
         Trace(i)[k].attempt = Trace(i)[l].attempt => k = l
    /\ \A k \in Calls(i, "fix_error") :
         Trace(i)[k].ok => FollowedByExecute(i, k, Trace(i)[k].sql)
    /\ \A k \in Calls(i, "execute") :
         Trace(i)[k].attempt > 1 =>
           /\ Trace(i)[k - 1].op \in {"quick_fix", "fix_error"}
           /\ Trace(i)[k - 1].ok

\* the database of the end-to-end scenario: the query on the misspelled
\* table fails with a missing-table error, the query on the table of the
\* schema succeeds
MisspelledTableDatabase(i) ==
  \A k \in Calls(i, "execute") :
     /\ Trace(i)[k].sql = SqlTypo =>
          /\ ~Trace(i)[k].ok
          /\ categorize_error(Trace(i)[k].error) = TABLE_NOT_FOUND
     /\ Trace(i)[k].sql = SqlGood => Trace(i)[k].ok

\* C5: end-to-end schema fix. With schema fixes enabled, a schema that
\* names the table, generated SQL that misspells it and at least two
\* attempts allowed, the run succeeds in two attempts, reports
\* self_corrected and has not called fix_sql_error.
C5_SchemaFixEndToEnd ==
  \A i \in Runs :
    ( /\ Done(i)
      /\ inv[i].max_retries >= 2
      /\ inv[i].enable_schema_fixes
      /\ InSeq("products", inv[i].schema.tables)
      /\ Trace(i)[1].op = "generate"
      /\ Trace(i)[1].ok
      /\ Trace(i)[1].sql = SqlTypo
      /\ MisspelledTableDatabase(i) )
    => /\ inv[i].result.success
       /\ inv[i].result.total_attempts = 2
       /\ inv[i].result.self_corrected
       /\ Calls(i, "fix_error") = {}

\* C6: learning captures the net transformation. learn_from_correction is
\* called only in a run with a learner, on an attempt after the first, with
\* the SQL and the error of attempt 1 and the SQL that just succeeded; a run
\* that succeeded after the first attempt has called it exactly once, a run
\* that succeeded at once or exhausted its retries has not called it.
C6_LearnOnce ==
  \A i \in Runs :
    /\ \A k \in Calls(i, "learn") :
         /\ inv[i].has_learner
         /\ Trace(i)[k].attempt > 1
         /\ Trace(i)[k].arg = inv[i].attempts[1].sql
         /\ Trace(i)[k].text = inv[i].attempts[1].error
         /\ inv[i].attempts[1].attempt_number = 1
         /\ Trace(i)[k - 1].op = "execute"
         /\ Trace(i)[k - 1].ok
         /\ Trace(i)[k].sql = Trace(i)[k - 1].sql
    /\ Done(i) =>
         IF inv[i].result.success /\ inv[i].attempt_num > 1
              /\ inv[i].has_learner
           THEN /\ Cardinality(Calls(i, "learn")) = 1
                /\ \A k \in Calls(i, "learn") :
                      Trace(i)[k].sql = inv[i].result.sql
           ELSE Calls(i, "learn") = {}

\* C7: a failure result carries the error text of the last recorded attempt
\* verbatim, and its attempts list holds one entry per attempt made, in the
\* order made: entry k is the record of attempt k.
C7_FailureResult ==
  \A i \in Runs :
    (Done(i) /\ ~inv[i].result.success) =>
      /\ inv[i].result.attempts = inv[i].attempts
      /\ Len(inv[i].attempts) > 0 =>
           inv[i].result.error =
             inv[i].attempts[Len(inv[i].attempts)].error
      /\ \A k \in 1..Len(inv[i].attempts) :
            inv[i].attempts[k].attempt_number = k

\* C8: in every result total_attempts is the length of attempts and
\* self_corrected tells whether attempts has more than one entry; a run
\* whose first execution succeeds reports one attempt and no correction.
C8_ResultCounts ==
  \A i \in Runs :
    Done(i) =>
      /\ inv[i].result.total_attempts = Len(inv[i].result.attempts)
      /\ inv[i].result.self_corrected <=> Len(inv[i].result.attempts) > 1
      /\ ( /\ Calls(i, "execute") # {}
           /\ \A k \in Calls(i, "execute") :
                 Trace(i)[k].attempt = 1 /\ Trace(i)[k].ok )
         => /\ inv[i].result.total_attempts = 1
            /\ ~inv[i].result.self_corrected

\* C10: every call of execute_query is made under the wall-clock timeout,
\* and an execution ended by the timeout is recorded as a failed attempt of
\* kind timeout, after which the run goes on.
C10_TimeoutOnEveryExecution ==
  \A i \in Invs :
    /\ inv[i].pc \in {"exec_wait", "exec_hung"} => inv[i].timer
    /\ \A k \in 1..Len(inv[i].attempts) :
          inv[i].attempts[k].error = ErrTimeout =>
            /\ ~inv[i].attempts[k].success
            /\ inv[i].attempts[k].error_type = TIMEOUT

IsExecute(e) == e.op = "execute"

\* the SQL strings an invocation has executed, in order
ExecutedSql(i) ==
  LET ex == SelectSeq(Trace(i), IsExecute)
  IN  [k \in 1..Len(ex) |-> ex[k].sql]

PairEvents(op) ==
  UNION {{Trace(i)[k] : k \in Calls(i, op)} : i \in {1, 2}}

\* the database and fix_sql_error behaved as functions of their arguments
\* over the two calls
SameCollaboratorBehaviour ==
  /\ \A e1, e2 \in PairEvents("execute") :
        e1.arg = e2.arg => e1.ok = e2.ok /\ e1.error = e2.error
  /\ \A e1, e2 \in PairEvents("fix_error") :
        (e1.arg = e2.arg /\ e1.text = e2.text) =>
           e1.ok = e2.ok /\ e1.sql = e2.sql /\ e1.error = e2.error

\* C9: execute_with_retry differs from generate_and_execute_with_retry only
\* by skipping generation: it never calls generate_sql, the first SQL it
\* executes is the caller's, and given the same schema and the same
\* behaviour of the database and of fix_sql_error it executes the same
\* sequence of SQL strings and reaches the same outcome as the run whose
\* generate_sql returned that SQL.
C9_EwrMatchesRun ==
  inv[2].mode = "ewr" =>
    /\ Calls(2, "generate") = {}
    /\ Calls(2, "execute") # {} =>
         ExecutedSql(2)[1] = inv[1].trace[1].sql
    /\ (Done(2) /\ SameCollaboratorBehaviour) =>
         /\ ExecutedSql(2) = ExecutedSql(1)
         /\ inv[2].result.success = inv[1].result.success
         /\ inv[2].result.sql = inv[1].result.sql

\* ------------------------------------------------------------------------
\* The learner inside the repair round
\* ------------------------------------------------------------------------

\* the hits find_applicable_corrections has returned
Hits(i) == {k \in Calls(i, "find") : Trace(i)[k].ok}

\* the first execute_query call after event k, if there is one
NextExecute(i, k) ==
  {m \in Calls(i, "execute") :
     m > k /\ \A n \in Calls(i, "execute") : n > k => m <= n}

\* C11: a learned correction is a hint, never applied. After every hit the
\* same round calls fix_sql_error on the unchanged SQL and error with the
\* hit in the hints, and the execution that comes next runs the SQL that
\* fix_sql_error (or, in a later round, an adopted quick fix) returned. A
\* run cancelled after the hit was waiting for that call of fix_sql_error.
C11_HitIsOnlyAHint ==
  \A i \in Runs :
    \A k \in Hits(i) :
      /\ IF k < Len(Trace(i))
           THEN /\ Trace(i)[k + 1].op \in {"fix_error", "cancel"}
                /\ Trace(i)[k + 1].attempt = Trace(i)[k].attempt
                /\ Trace(i)[k + 1].hint
                /\ Trace(i)[k + 1].arg = Trace(i)[k].arg
                /\ Trace(i)[k + 1].text = Trace(i)[k].text
           ELSE /\ inv[i].pc = "fix_wait"
                /\ inv[i].hint
                /\ inv[i].attempt_num = Trace(i)[k].attempt
                /\ inv[i].sql = Trace(i)[k].arg
      /\ \A m \in NextExecute(i, k) :
            /\ Trace(i)[m - 1].op \in {"fix_error", "quick_fix"}
            /\ Trace(i)[m - 1].ok
            /\ Trace(i)[m].arg = Trace(i)[m - 1].sql
            /\ Trace(i)[m].attempt = Trace(i)[k].attempt =>
                 /\ m = k + 2
                 /\ Trace(i)[k + 1].op = "fix_error"

\* after a hit fix_sql_error returned the misspelled SQL, not the stored
\* one, and that SQL was executed
C11_Witness ==
  \E i \in Runs :
    \E k \in Hits(i) :
      /\ k + 2 <= Len(Trace(i))
      /\ Trace(i)[k + 1].op = "fix_error"
      /\ Trace(i)[k + 1].sql = SqlTypo
      /\ Trace(i)[k + 2].op = "execute"
      /\ Trace(i)[k + 2].arg = SqlTypo

\* C12: no attempt of a run both reads and writes the learner: a call of
\* find_applicable_corrections is never followed, in the same attempt, by a
\* call of learn_from_correction.
C12_NoFindThenLearn ==
  \A i \in Runs :
    \A k \in Calls(i, "find"), l \in Calls(i, "learn") :
       ~(k < l /\ Trace(i)[k].attempt = Trace(i)[l].attempt)

\* the key _find_similar_correction looks a row up by
CorrectionKey(row) ==
  <<row.error_type, row.error_pattern, row.database_type, row.table_pattern,
    row.column_pattern>>

\* the confidence of a row that was created and then learned and applied
\* with success only
RaisedConfidence(learned, applied) ==
  IF InitialConfidence + LearnNudge * (learned - 1) + SuccessNudge * applied
       > 100
    THEN 100
    ELSE InitialConfidence + LearnNudge * (learned - 1)
           + SuccessNudge * applied

CancelledNow(i) ==
  /\ Len(inv'[i].trace) = Len(inv[i].trace) + 1
  /\ inv'[i].trace[Len(inv'[i].trace)].op = "cancel"

\* C14: a run cancelled while it waits for generate_sql, fix_sql_error or
\* execute_query ends there: the cancellation adds no attempt record,
\* leaves the table of corrections as it is, and the cancelled run makes no
\* call and changes nothing afterwards.
C14_CancelEndsRun ==
  [][\A i \in Invs :
       /\ CancelledNow(i) =>
            /\ inv[i].pc \in SuspensionPoints
            /\ inv'[i].pc = "cancelled"
            /\ inv'[i].attempts = inv[i].attempts
            /\ inv'[i].result = inv[i].result
            /\ corrections' = corrections
       /\ inv[i].pc = "cancelled" =>
            /\ inv'[i] = inv[i]
            /\ corrections' = corrections]_vars

\* a run with a learner was cancelled while the execution of its second
\* attempt was pending
C14_Witness ==
  \E i \in Runs :
     /\ inv[i].pc = "cancelled"
     /\ inv[i].has_learner
     /\ inv[i].attempt_num = 2
     /\ Len(inv[i].attempts) = 1
     /\ Len(inv[i].trace) >= 2
     /\ inv[i].trace[Len(inv[i].trace) - 1].op = "fix_error"
     /\ inv[i].trace[Len(inv[i].trace) - 1].ok

\* the last call on a learner was a learn that was not a no-op
LearnedLast ==
  /\ reply.op = "learn"
  /\ reply.enable_learning
  /\ reply.was_successful

\* row has the error type, database type and normalized error of the
\* correction c
SameTriple(row, c) ==
  /\ row.error_type = c.error_type
  /\ row.database_type = c.database_type
  /\ row.error_pattern = normalize_error(c.original_error)

\* row also has the table name and the column name that the error of c
\* names
SameKey(row, c) ==
  /\ SameTriple(row, c)
  /\ (c.error_type = TABLE_NOT_FOUND
        /\ learner_extract_table_name(c.original_error) # NoName) =>
       row.table_pattern = learner_extract_table_name(c.original_error)
  /\ (c.error_type = COLUMN_NOT_FOUND
        /\ learner_extract_column_name(c.original_error) # NoName) =>
       row.column_pattern = learner_extract_column_name(c.original_error)

\* the call added one row, with times_applied = 1 and confidence 0.7, and
\* returned its id
CreatedRow(before, after, id) ==
  /\ id = Len(before) + 1
  /\ Len(after) = Len(before) + 1
  /\ SubSeq(after, 1, Len(before)) = before
  /\ after[id].times_applied = 1
  /\ after[id].confidence_score = 70

\* the call added no row, returned the id of one of the rows ids and
\* changed that row only: times_applied one more, confidence 0.1 more but
\* at most 1.0
UpdatedRow(before, after, id, ids) ==
  /\ id \in ids
  /\ Len(after) = Len(before)
  /\ \A other \in 1..Len(before) : other # id => after[other] = before[other]
  /\ after[id] =
       [before[id] EXCEPT
          !.times_applied = @ + 1,
          !.confidence_score = IF @ + 10 > 100 THEN 100 ELSE @ + 10]

\* C15 as stated: a learn creates a row when no row has its error type,
\* normalized error and database type, and otherwise returns the id of a
\* row that has them and updates it, creating none.
C15_SameTripleSameId ==
  LearnedLast =>
    IF \A id \in 1..Len(reply.before) :
         ~SameTriple(reply.before[id], reply.case)
      THEN CreatedRow(reply.before, corrections, reply.id)
      ELSE UpdatedRow(reply.before, corrections, reply.id,
                      {id \in 1..Len(reply.before) :
                         SameTriple(reply.before[id], reply.case)})

\* C15, amended: the row must also have the table name and the column name
\* extracted from the error, where one is extracted. A learn creates a
\* row (times_applied 1, confidence 0.7) when no row matches in this way;
\* otherwise it returns the id of a matching row, creates none, and adds 1
\* to times_applied and 0.1 (up to 1.0) to the confidence of that row.
C15_SameKeySameId ==
  LearnedLast =>
    IF \A id \in 1..Len(reply.before) :
         ~SameKey(reply.before[id], reply.case)
      THEN CreatedRow(reply.before, corrections, reply.id)
      ELSE UpdatedRow(reply.before, corrections, reply.id,
                      {id \in 1..Len(reply.before) :
                         SameKey(reply.before[id], reply.case)})

\* a correction learned with one SQL text is learned again with another:
\* the second call returns the id of the first row, now applied twice
C15_Witness ==
  /\ LearnedLast
  /\ reply.id \in 1..Len(reply.before)
  /\ SameKey(reply.before[reply.id], reply.case)
  /\ reply.before[reply.id].original_sql # reply.case.original_sql
  /\ reply.before[reply.id].times_applied = 1
  /\ reply.before[reply.id].confidence_score = 70
  /\ corrections[reply.id].times_applied = 2
  /\ corrections[reply.id].confidence_score = 80
  /\ Len(corrections) = Len(reply.before)

\* C16: whatever calls of learn_from_correction and
\* apply_learned_correction were made, with whatever outcomes, the
\* confidence_score of every row lies between 0.0 and 1.0.
C16_ConfidenceInRange ==
  \A id \in 1..Len(corrections) :
     /\ corrections[id].confidence_score >= 0
     /\ corrections[id].confidence_score <= 100

\* a failed application found the row at 0.05 and left it at 0.0, not
\* below
C16_Witness ==
  /\ reply.op = "apply"
  /\ ~reply.was_successful
  /\ reply.id \in 1..Len(reply.before)
  /\ reply.before[reply.id].confidence_score < FailureNudge
  /\ corrections[reply.id].confidence_score = 0

\* the last call on a learner was an application recorded for a stored row
AppliedLast(was_successful) ==
  /\ reply.op = "apply"
  /\ reply.was_successful = was_successful
  /\ reply.id \in 1..Len(reply.before)

\* no call lowers times_applied of a row, and a learn that returned the id
\* of a stored row or a successful application raised it by one
TimesAppliedGrows ==
  /\ Len(corrections) >= Len(reply.before)
  /\ \A id \in 1..Len(reply.before) :
        corrections[id].times_applied >= reply.before[id].times_applied
  /\ (LearnedLast /\ reply.id \in 1..Len(reply.before)) =>
        corrections[reply.id].times_applied
          = reply.before[reply.id].times_applied + 1
  /\ AppliedLast(TRUE) =>
        corrections[reply.id].times_applied
          = reply.before[reply.id].times_applied + 1
  /\ AppliedLast(FALSE) =>
        corrections[reply.id].times_applied
          = reply.before[reply.id].times_applied

\* C17 as stated: times_applied never decreases, grows by one with a learn
\* on a stored row and with a successful application, and a failed
\* application leaves it as it is and lowers the confidence.
C17_FailureLowersConfidence ==
  /\ TimesAppliedGrows
  /\ AppliedLast(FALSE) =>
        corrections[reply.id].confidence_score
          < reply.before[reply.id].confidence_score

\* C17, amended: a failed application lowers the confidence by 0.1 but not
\* below 0.0, so a row at 0.0 keeps its confidence; the statements about
\* times_applied are those of the claim.
C17_TimesAppliedMonotone ==
  /\ TimesAppliedGrows
  /\ AppliedLast(FALSE) =>
        corrections[reply.id].confidence_score
          = (IF reply.before[reply.id].confidence_score < 10 THEN 0
             ELSE reply.before[reply.id].confidence_score - 10)

\* a failed application left times_applied of a row that had been learned
\* twice at 2 and took its confidence from 0.7 to 0.6
C17_Witness ==
  /\ AppliedLast(FALSE)
  /\ tally[reply.id].learned = 1
  /\ reply.before[reply.id].times_applied = 2
  /\ corrections[reply.id].times_applied = 2
  /\ reply.before[reply.id].confidence_score = 70
  /\ corrections[reply.id].confidence_score = 60

\* the last call on a learner was a find on an enabled learner
FoundLast ==
  /\ reply.op = "find"
  /\ reply.enable_learning

\* the rows of the table that fit the error of correction c: same error
\* type and database type, confidence at least 0.5, and the table (column)
\* name extracted from the error, if any, equal to the row's or the row's
\* unset
Fitting(store, c) ==
  {id \in 1..Len(store) :
     /\ store[id].error_type = c.error_type
     /\ store[id].database_type = c.database_type
     /\ store[id].confidence_score >= 50
     /\ learner_extract_table_name(c.original_error) # NoName =>
          \/ store[id].table_pattern
               = learner_extract_table_name(c.original_error)
          \/ store[id].table_pattern = NoName
     /\ learner_extract_column_name(c.original_error) # NoName =>
          \/ store[id].column_pattern
               = learner_extract_column_name(c.original_error)
          \/ store[id].column_pattern = NoName}

\* row a does not come after row b: higher confidence, or the same and
\* times_applied not lower
NotAfter(store, a, b) ==
  \/ store[a].confidence_score > store[b].confidence_score
  \/ /\ store[a].confidence_score = store[b].confidence_score
     /\ store[a].times_applied >= store[b].times_applied

\* C18: find_applicable_corrections returns the rows that fit the error,
\* each once, ordered by confidence and then times_applied, both
\* descending; all of them when they are at most limit, else the limit
\* first ones. A row whose confidence is below 0.5 is not returned.
C18_FindReturnsFitting ==
  FoundLast =>
    /\ \A k \in 1..Len(reply.ids) :
          reply.ids[k] \in Fitting(reply.before, reply.case)
    /\ Len(reply.ids) =
         (IF Cardinality(Fitting(reply.before, reply.case)) < reply.limit
            THEN Cardinality(Fitting(reply.before, reply.case))
            ELSE reply.limit)
    /\ \A j, k \in 1..Len(reply.ids) :
          j < k => /\ reply.ids[j] # reply.ids[k]
                   /\ NotAfter(reply.before, reply.ids[j], reply.ids[k])
    /\ \A id \in Fitting(reply.before, reply.case) :
          (\A k \in 1..Len(reply.ids) : reply.ids[k] # id) =>
             \A k \in 1..Len(reply.ids) :
                NotAfter(reply.before, reply.ids[k], id)
    /\ corrections = reply.before

\* of two rows that fit the error but for the confidence, the one that
\* failed applications took below 0.5 is left out and the other returned
C18_Witness ==
  /\ FoundLast
  /\ Len(reply.ids) = 1
  /\ reply.limit > 1
  /\ \E id \in 1..Len(corrections) :
        /\ id # reply.ids[1]
        /\ tally[id].failed > 0
        /\ corrections[id].confidence_score < 50
        /\ corrections[id].error_type = reply.case.error_type
        /\ corrections[id].database_type = reply.case.database_type
        /\ corrections[id].table_pattern
             = learner_extract_table_name(reply.case.original_error)

\* C19: learn_from_correction on a learner with learning disabled, or with
\* was_successful false, returns no id and leaves the table as it was;
\* find_applicable_corrections on a learner with learning disabled returns
\* the empty list.
C19_DisabledIsNoOp ==
  /\ (reply.op = "learn" /\ ~(reply.enable_learning /\ reply.was_successful))
       => /\ reply.id = NoId
          /\ corrections = reply.before
  /\ (reply.op = "find" /\ ~reply.enable_learning)
       => /\ reply.ids = <<>>
          /\ corrections = reply.before

\* a disabled learner was given a successful correction that the table
\* already holds a row for
C19_Witness ==
  /\ reply.op = "learn"
  /\ ~reply.enable_learning
  /\ reply.was_successful
  /\ reply.id = NoId
  /\ \E id \in 1..Len(corrections) :
        /\ SameKey(corrections[id], reply.case)
        /\ corrections[id].times_applied = 1

\* verify_results has returned for a result that reports success
Verified ==
  /\ ~verification.pending
  /\ verification.result.success

\* the values of all cells of the rows handed to verify_results
VerifiedCells == Cells(verification.result.data)

\* the conditions of the five checks, in the order of verify_results
EmptyHolds == verification.result.row_count = 0

AllNullsHolds ==
  /\ Len(verification.result.data) > 0
  /\ \A cell \in VerifiedCells : cell.val = Null

ExtremeHolds ==
  \E cell \in VerifiedCells :
     /\ cell.val # Null
     /\ \/ cell.val.n > ExtremeValueThreshold
        \/ cell.val.n < 0 - ExtremeValueThreshold

UnexpectedCountHolds ==
  /\ is_count_query(verification.sql)
  /\ expects_data(verification.question)
  /\ Len(verification.result.data) > 0
  /\ \E c \in 1..Len(verification.result.data[1]) :
        /\ HasCount(verification.result.data[1][c].col)
        /\ verification.result.data[1][c].val = Number(0)

NegativeCountHolds ==
  \E cell \in VerifiedCells :
     HasCount(cell.col) /\ cell.val # Null /\ cell.val.n < 0

\* C20: verify_results returns NO_ISSUE, not suspicious, confidence 0, for
\* a result that failed; for one that succeeded it returns the issue of the
\* first of the checks empty result, all nulls, extreme value, unexpected
\* count, negative count whose condition holds, with confidence 0.7, 0.8,
\* 0.6, 0.5, 1.0, and NO_ISSUE with confidence 0 if none holds;
\* is_suspicious is true exactly when the issue is not NO_ISSUE.
C20_FirstCheckWins ==
  ~verification.pending =>
    /\ verification.verdict.is_suspicious
         <=> verification.verdict.issue_type # NO_ISSUE
    /\ ~verification.result.success =>
         verification.verdict = VerificationResult(FALSE, 0, NO_ISSUE)
    /\ verification.result.success =>
         verification.verdict =
           (IF EmptyHolds THEN VerificationResult(TRUE, 70, EMPTY_RESULT)
            ELSE IF AllNullsHolds
              THEN VerificationResult(TRUE, 80, ALL_NULLS)
            ELSE IF ExtremeHolds
              THEN VerificationResult(TRUE, 60, EXTREME_VALUE)
            ELSE IF UnexpectedCountHolds
              THEN VerificationResult(TRUE, 50, UNEXPECTED_COUNT)
            ELSE IF NegativeCountHolds
              THEN VerificationResult(TRUE, 100, NEGATIVE_COUNT)
            ELSE VerificationResult(FALSE, 0, NO_ISSUE))

\* a result with an extreme value, a count of 0 that the question asks
\* for and a negative count: the extreme value is reported
C20_Witness ==
  /\ Verified
  /\ ~EmptyHolds
  /\ ~AllNullsHolds
  /\ ExtremeHolds
  /\ UnexpectedCountHolds
  /\ NegativeCountHolds
  /\ verification.verdict = VerificationResult(TRUE, 60, EXTREME_VALUE)

\* C21 as stated: whenever a row of a successful result holds a negative
\* number in a column whose name contains "count", verify_results returns
\* NEGATIVE_COUNT with confidence 1.0, whatever else is true of the result.
C21_NegativeCountFirst ==
  (Verified /\ NegativeCountHolds) =>
    verification.verdict = VerificationResult(TRUE, 100, NEGATIVE_COUNT)

\* C21, amended: the negative count is reported, with confidence 1.0, when
\* none of the four checks made before it fires (empty result, all nulls,
\* extreme value, unexpected count), and only then.
C21_NegativeCountLast ==
  Verified =>
    (verification.verdict = VerificationResult(TRUE, 100, NEGATIVE_COUNT)
       <=> /\ NegativeCountHolds
           /\ ~EmptyHolds
           /\ ~AllNullsHolds
           /\ ~ExtremeHolds
           /\ ~UnexpectedCountHolds)

\* the negative count stands in the second row of a result whose first row
\* is unsuspicious, asked for with a count query and a counting question
C21_Witness ==
  /\ Verified
  /\ verification.verdict = VerificationResult(TRUE, 100, NEGATIVE_COUNT)
  /\ Len(verification.result.data) = 2
  /\ \A c \in 1..Len(verification.result.data[1]) :
        verification.result.data[1][c].val = Number(5)
  /\ is_count_query(verification.sql)
  /\ expects_data(verification.question)

\* the names a FROM or JOIN of the SQL is followed by
TablesNamed(sql) ==
  {sql[i + 1] : i \in {j \in 1..(Len(sql) - 1) :
                         Lower(sql[j]) \in {"from", "join"} /\ IsIdent(sql[j + 1])}}

\* how many of the diagnostic queries are the query q
TimesAsked(q) ==
  Cardinality({k \in 1..Len(verification.diagnostic_queries.list) :
                 verification.diagnostic_queries.list[k] = q})

\* C22: a successful result with row_count = 0 is reported as EmptyResult
\* with confidence 0.7, and the diagnostic queries are one COUNT(*) query
\* and one SELECT * ... LIMIT 5 query for every distinct table name that
\* follows FROM or JOIN in the SQL, and nothing else: the list is non-empty
\* whenever a table name is found.
C22_EmptyResultDiagnoses ==
  (Verified /\ EmptyHolds) =>
    /\ verification.verdict = VerificationResult(TRUE, 70, EMPTY_RESULT)
    /\ verification.diagnostic_queries.given
    /\ \A t \in TablesNamed(verification.sql) :
         TimesAsked(CountQuery(t)) = 1 /\ TimesAsked(SampleQuery(t)) = 1
    /\ Len(verification.diagnostic_queries.list)
         = 2 * Cardinality(TablesNamed(verification.sql))
    /\ (TablesNamed(verification.sql) # {}
          => verification.diagnostic_queries.list # <<>>)

\* an empty result of a join of two tables has been verified
C22_Witness ==
  /\ Verified
  /\ EmptyHolds
  /\ verification.sql = SqlJoin
  /\ Len(verification.diagnostic_queries.list) = 4
  /\ verification.diagnostic_queries.list[1] = CountQuery("products")

\* the call of the given method has returned
Returned(fn) == call.fn = fn /\ ~call.pending

\* the similarity of the missing table of the call to the k-th known table
KnownScore(k) == similarity(call.a, call.fixer.table_names[k])

\* the known tables that no other known table beats
BestTables ==
  {k \in 1..Len(call.fixer.table_names) :
     \A j \in 1..Len(call.fixer.table_names) :
        ~ScoreGreater(KnownScore(j), KnownScore(k))}

\* C23: for a TableNotFound error naming table t, quick_fix succeeds exactly
\* when the best-matching known table has similarity >= 0.7 to t, with that
\* table as corrected_value and that similarity as confidence; a best match
\* in [0.6, 0.7) fails and reports its similarity; when no known table
\* reaches 0.6 it fails; no successful QuickFix has confidence < 0.7.
C23_QuickFixTable ==
  Returned("quick_fix") =>
    /\ call.quickfix.success
         <=> \E k \in BestTables : ScoreAtLeast(KnownScore(k), 7)
    /\ call.quickfix.success =>
         /\ \E k \in BestTables :
               /\ call.quickfix.corrected_value = call.fixer.table_names[k]
               /\ call.quickfix.confidence = KnownScore(k)
         /\ ScoreAtLeast(call.quickfix.confidence, 7)
    /\ \A k \in BestTables :
         (ScoreAtLeast(KnownScore(k), 6) /\ ~ScoreAtLeast(KnownScore(k), 7))
           => /\ ~call.quickfix.success
              /\ call.quickfix.confidence = KnownScore(k)
    /\ (\A k \in 1..Len(call.fixer.table_names) :
           ~ScoreAtLeast(KnownScore(k), 6)) => ~call.quickfix.success

\* the same for the messages of PostgreSQL and SQLite
C23_QuickFixTableQuoted ==
  (Returned("quick_fix") /\ call.error_message # DuckDBError(call.a))
    => C23_QuickFixTable

\* the last position of the run of word characters that starts at i
RECURSIVE WordEnd(_, _)
WordEnd(chars, i) ==
  IF i + 1 <= Len(chars) /\ IsWordChar(chars[i + 1])
    THEN WordEnd(chars, i + 1) ELSE i

\* the text from position i on, a position where a word or a single other
\* character starts, with every word that is the old name in some case
\* replaced by the new name as it is written
RECURSIVE WordsRewritten(_, _, _, _)
WordsRewritten(chars, old_name, new_name, i) ==
  IF i > Len(chars) THEN <<>>
  ELSE IF IsWordChar(chars[i])
    THEN (IF LowerChars(SubSeq(chars, i, WordEnd(chars, i)))
                = LowerChars(old_name)
            THEN new_name ELSE SubSeq(chars, i, WordEnd(chars, i)))
         \o WordsRewritten(chars, old_name, new_name, WordEnd(chars, i) + 1)
  ELSE <<chars[i]>> \o WordsRewritten(chars, old_name, new_name, i + 1)

\* C24: identifier replacement rewrites the whole-word occurrences of the
\* wrong name, in any letter case, into the schema's name in the schema's
\* casing and leaves every other character of the SQL as it is: a longer
\* identifier that contains the wrong name ("username" when "user" is
\* fixed) is not rewritten.
C24_WholeWordsOnly ==
  Returned("replace") =>
    call.text = WordsRewritten(call.sql, call.old_name, call.new_name, 1)

\* "user" has been replaced by "customer" in "select username from User":
\* "username" is kept and "User" is rewritten
C24_Witness ==
  /\ Returned("replace")
  /\ call.sql = CharsUsername
  /\ call.old_name = CharsUser
  /\ call.new_name = CharsCustomer
  /\ Len(call.sql) = 25
  /\ SubSeq(call.text, 1, 21) = SubSeq(call.sql, 1, 21)
  /\ SubSeq(call.text, 22, Len(call.text)) = CharsCustomer

\* the keywords of a syntax error
SyntaxKeywords ==
  {<<"syntax", "error">>, <<"syntax">>, <<"parse", "error">>,
   <<"unexpected">>}

\* the text holds a quoted identifier and, behind it, "does not exist"
QuotedBeforeDoesNotExist(text) ==
  \E i \in 1..(Len(text) - 2) :
     /\ text[i] = Quote /\ IsIdent(text[i + 1]) /\ text[i + 2] = Quote
     /\ \E j \in (i + 3)..(Len(text) - 2) :
           SubSeq(LowerText(text), j, j + 2) = <<"does", "not", "exist">>

C26_ColumnAndTypeErrors ==
  Returned("categorize_error") =>
    /\ (\E name \in {"pric", "total"} :
          call.error_message = ColumnError(name))
         => call.error_type = COLUMN_NOT_FOUND
    /\ (\E left, right \in {"integer", "text"} :
          call.error_message = OperatorError(left, right))
         => call.error_type = TYPE_MISMATCH

\* two scores are the same number
SameScore(s1, s2) == s1.num * s2.den = s2.num * s1.den

\* the score is 1.0
ScoreIsOne(score) == score.den > 0 /\ score.num = score.den

\* C27 as stated: similarity(x, x) = 1.0 for every non-empty x, also when
\* the arguments differ only in letter case, and similarity(a, b) =
\* similarity(b, a) for all a and b.
C27_IdentityAndSymmetry ==
  Returned("similarity") =>
    /\ (Lower(call.a) = Lower(call.b) => ScoreIsOne(call.score))
    /\ SameScore(call.score, call.swapped)

\* the part of C27 that holds: similarity(x, x) = 1.0 for every non-empty
\* x, also when the arguments differ only in letter case; similarity(a, b)
\* is a number from 0.0 to 1.0 that depends on the lower-cased arguments
\* only and is 1.0 for no other pair.
C27_IdentityAndCase ==
  Returned("similarity") =>
    /\ (Lower(call.a) = Lower(call.b) <=> ScoreIsOne(call.score))
    /\ call.score.num >= 0 /\ call.score.num <= call.score.den
    /\ call.score = similarity(Lower(call.a), Lower(call.b))

\* ------------------------------------------------------------------------
\* Exceptions inside the retry loop
\* ------------------------------------------------------------------------

\* generate_sql raised on attempt 1
GenerationRaised(i) ==
  /\ Trace(i) # <<>>
  /\ Trace(i)[1].op = "generate"
  /\ ~Trace(i)[1].ok

\* the repair steps that produced SQL: fix_sql_error returned, or a quick
\* fix was adopted
Repairs(i) ==
  {k \in Calls(i, "fix_error") \cup Calls(i, "quick_fix") : Trace(i)[k].ok}

\* C28: when generate_sql raises on attempt 1 the failure is recorded as
\* attempt 1 and the loop goes on: every later attempt runs the repair step
\* and then calls execute_query on the repaired SQL.
C28_GenerationFailureNotFatal ==
  \A i \in Runs :
    GenerationRaised(i) =>
      /\ Len(inv[i].attempts) >= 1
      /\ inv[i].attempts[1].attempt_number = 1
      /\ ~inv[i].attempts[1].success
      /\ inv[i].attempts[1].error = Trace(i)[1].error
      /\ \A k \in Repairs(i) :
           IF k < Len(Trace(i))
             THEN /\ Trace(i)[k + 1].op \in {"execute", "cancel"}
                  /\ Trace(i)[k + 1].attempt = Trace(i)[k].attempt
                  /\ Trace(i)[k + 1].arg = Trace(i)[k].sql
             ELSE /\ inv[i].pc \in {"exec_wait", "exec_hung"}
                  /\ inv[i].sql = Trace(i)[k].sql

\* what the code does instead: after a failed generation execute_query is
\* never called and the run cannot succeed
C28_FailedGenerationIsFatal ==
  \A i \in Runs :
    GenerationRaised(i) =>
      /\ Calls(i, "execute") = {}
      /\ inv[i].pc \notin {"exec_wait", "exec_hung"}
      /\ Done(i) => ~inv[i].result.success

\* the calls of generate_sql, fix_sql_error and learn_from_correction that
\* raised (a failed execute_query returns its error)
Raised(i) ==
  {k \in 1..Len(Trace(i)) :
     Trace(i)[k].op \in {"generate", "fix_error", "learn"} /\ ~Trace(i)[k].ok}

\* the first call of the repair round that follows the attempt of event k
NextRepair(i, k) ==
  {m \in (k + 1)..Len(Trace(i)) :
     /\ Trace(i)[m].op \in {"quick_fix", "find", "fix_error"}
     /\ Trace(i)[m].attempt = Trace(i)[k].attempt + 1
     /\ \A n \in (k + 1)..(m - 1) :
           Trace(i)[n].attempt # Trace(i)[k].attempt + 1}

\* the exception of event k is recorded as a failed attempt of the given
\* kind, and the next repair round is given its text
RecordedAs(i, k, error_type) ==
  /\ \E a \in 1..Len(inv[i].attempts) :
        /\ inv[i].attempts[a].attempt_number = Trace(i)[k].attempt
        /\ ~inv[i].attempts[a].success
        /\ inv[i].attempts[a].error = Trace(i)[k].error
        /\ inv[i].attempts[a].error_type = error_type
  /\ \A m \in NextRepair(i, k) : Trace(i)[m].text = Trace(i)[k].error

\* C29: an exception raised by a collaborator is treated like a returned
\* execution error with the same text: the attempt recorded for it carries
\* the text of the exception and the error kind that categorize_error gives
\* for that text, and the next repair round is driven by that text.
C29_ExceptionLikeError ==
  \A i \in Invs :
    \A k \in Raised(i) :
       RecordedAs(i, k, categorize_error(Trace(i)[k].error))

\* what the code does: the kind recorded for an exception is always
\* UNKNOWN
C29_ExceptionIsUnknown ==
  \A i \in Invs : \A k \in Raised(i) : RecordedAs(i, k, UNKNOWN)

\* the only exceptions so far were raised by fix_sql_error
OnlyFixRaised(i) == \A k \in Raised(i) : Trace(i)[k].op = "fix_error"

\* entry k of the attempt list is the record of attempt k, and there are no
\* more entries than max_retries
OneRecordPerIteration(i) ==
  /\ \A k \in 1..Len(inv[i].attempts) :
        inv[i].attempts[k].attempt_number = k
  /\ Len(inv[i].attempts) <= inv[i].max_retries

\* C30: in generate_and_execute_with_retry and in execute_with_retry one
\* attempt record is created per loop iteration, whatever executions fail
\* and whatever calls of fix_sql_error raise: entry k has attempt_number k,
\* no number occurs twice and the list has at most max_retries entries.
C30_OneRecordEach ==
  \A i \in Invs : OnlyFixRaised(i) => OneRecordPerIteration(i)

\* the same for generate_and_execute_with_retry alone
C30_OneRecordEachRun ==
  \A i \in Runs : OnlyFixRaised(i) => OneRecordPerIteration(i)

\* ------------------------------------------------------------------------
\* The SQL of a retry
\* ------------------------------------------------------------------------

\* the quick fixes the run adopted
Adopted(i) == {k \in Calls(i, "quick_fix") : Trace(i)[k].ok}

\* C31: whenever the run adopts a quick fix, the SQL executed in the next
\* attempt differs from the SQL of the attempt that just failed.
C31_AdoptedFixChangesSql ==
  \A i \in Runs :
    \A k \in Adopted(i) :
       /\ Trace(i)[k].sql # Trace(i)[k].arg
       /\ \A m \in NextExecute(i, k) :
             Trace(i)[m].attempt = Trace(i)[k].attempt =>
               Trace(i)[m].arg # Trace(i)[k].arg

\* ------------------------------------------------------------------------
\* The key of a learned correction
\* ------------------------------------------------------------------------

\* the patterns learn_from_correction extracts from the correction c
KeyOf(c) ==
  extract_patterns(c.error_type, c.original_sql, c.original_error,
                   c.corrected_sql)

\* row and the correction c agree in all five components of the key, an
\* unset pattern being equal to an unset pattern only
SameFive(row, c) ==
  /\ row.error_type = c.error_type
  /\ row.database_type = c.database_type
  /\ row.error_pattern = KeyOf(c).error_pattern
  /\ row.table_pattern = KeyOf(c).table_pattern
  /\ row.column_pattern = KeyOf(c).column_pattern

\* C32: a learn updates a stored row only when error type, normalized error,
\* database type, table pattern and column pattern all match, an unset
\* pattern matching only an unset pattern; a learn whose key differs from
\* every stored row in some component creates a row and changes none.
C32_FiveComponentKey ==
  LearnedLast =>
    IF \A id \in 1..Len(reply.before) : ~SameFive(reply.before[id], reply.case)
      THEN CreatedRow(reply.before, corrections, reply.id)
      ELSE UpdatedRow(reply.before, corrections, reply.id,
                      {id \in 1..Len(reply.before) :
                         SameFive(reply.before[id], reply.case)})

\* ------------------------------------------------------------------------
\* The success rate of a learned correction
\* ------------------------------------------------------------------------

\* rate * trials + outcome, as a fraction
AverageStep(rate, trials, outcome) ==
  [num |-> rate.num * trials + outcome * rate.den, den |-> rate.den]

\* rate * trials, as a fraction
Times(rate, trials) == [num |-> rate.num * trials, den |-> rate.den]

\* the rate lies in [0, 1]
IsRate(rate) == rate.den > 0 /\ rate.num >= 0 /\ rate.num <= rate.den

\* the application just recorded is a trial of the running average: the
\* row counts one more trial, and its rate times the trials is the old rate
\* times the old trials plus the outcome
AveragedIn(outcome) ==
  /\ corrections[reply.id].times_applied
       = reply.before[reply.id].times_applied + 1
  /\ SameScore(Times(corrections[reply.id].success_rate,
                     corrections[reply.id].times_applied),
               AverageStep(reply.before[reply.id].success_rate,
                           reply.before[reply.id].times_applied, outcome))

\* C33: after every recorded application success_rate is the running
\* average of the outcomes (1 for a success, 0 for a failure) over
\* times_applied trials and lies in [0, 1]; a failed application counts as
\* a trial of that average.
C33_RunningAverage ==
  /\ AppliedLast(TRUE) => AveragedIn(1)
  /\ AppliedLast(FALSE) => AveragedIn(0)
  /\ \A id \in 1..Len(corrections) : IsRate(corrections[id].success_rate)

\* what the code does: a success is averaged in; a failure adds no trial
\* and multiplies the rate by (times_applied - 1) / times_applied
C33_FailureShrinksRate ==
  /\ AppliedLast(TRUE) => AveragedIn(1)
  /\ AppliedLast(FALSE) =>
       /\ corrections[reply.id].times_applied
            = reply.before[reply.id].times_applied
       /\ SameScore(Times(corrections[reply.id].success_rate,
                          reply.before[reply.id].times_applied),
                    Times(reply.before[reply.id].success_rate,
                          reply.before[reply.id].times_applied - 1))
  /\ \A id \in 1..Len(corrections) : IsRate(corrections[id].success_rate)

\* ------------------------------------------------------------------------
\* Failures of the learner's storage
\* ------------------------------------------------------------------------

\* the lookups that failed
FailedFinds(i) == {k \in Calls(i, "find") : Trace(i)[k].error # NoText}

\* the learn calls that failed, the error swallowed or raised
FailedLearns(i) == {k \in Calls(i, "learn") : Trace(i)[k].error # NoText}

\* after the failed lookup k the round calls fix_sql_error with the
\* unchanged SQL and error and no learned hint
ProceedsWithoutHint(i, k) ==
  IF k < Len(Trace(i))
    THEN /\ Trace(i)[k + 1].op \in {"fix_error", "cancel"}
         /\ Trace(i)[k + 1].attempt = Trace(i)[k].attempt
         /\ ~Trace(i)[k + 1].hint
         /\ Trace(i)[k + 1].arg = Trace(i)[k].arg
         /\ Trace(i)[k + 1].text = Trace(i)[k].text
    ELSE inv[i].pc = "fix_wait" /\ ~inv[i].hint

\* the SQL that the call of fix_sql_error at event k returned is executed
\* next
ThenExecutes(i, k) ==
  (Trace(i)[k].op = "fix_error" /\ Trace(i)[k].ok) =>
    IF k < Len(Trace(i))
      THEN /\ Trace(i)[k + 1].op \in {"execute", "cancel"}
           /\ Trace(i)[k + 1].arg = Trace(i)[k].sql
      ELSE inv[i].pc \in {"exec_wait", "exec_hung"}

\* the run has returned the success of the execution before the learn call
\* k, and the record of that execution is the last attempt
SuccessKept(i, k) ==
  /\ Done(i)
  /\ inv[i].result.success
  /\ inv[i].result.sql = Trace(i)[k - 1].sql
  /\ inv[i].result.attempts = inv[i].attempts
  /\ inv[i].attempts[Len(inv[i].attempts)].success

\* no failed attempt carries the text of the learner failure k
NotRecorded(i, k) ==
  \A a \in 1..Len(inv[i].attempts) :
     inv[i].attempts[a].error # Trace(i)[k].error

\* C34: a failure of the learner's storage never aborts the repair flow. A
\* failed lookup makes the round go on as if nothing were found: it calls
\* fix_sql_error and executes. A failed learn after a successful execution
\* leaves the run returning that success with the same attempts. No failed
\* attempt is recorded for either.
C34_LearnerNeverAborts ==
  \A i \in Runs :
    /\ \A k \in FailedFinds(i) :
         /\ ProceedsWithoutHint(i, k)
         /\ k < Len(Trace(i)) => ThenExecutes(i, k + 1)
         /\ NotRecorded(i, k)
    /\ \A k \in FailedLearns(i) :
         SuccessKept(i, k) /\ NotRecorded(i, k)

\* what the code does: the failures that the learner catches itself abort
\* nothing, in a run whose generation returned
C34_CaughtFailuresAbortNothing ==
  \A i \in Runs :
    /\ \A k \in FailedFinds(i) :
         /\ ProceedsWithoutHint(i, k)
         /\ (k < Len(Trace(i)) /\ ~GenerationRaised(i)) =>
              ThenExecutes(i, k + 1)
         /\ NotRecorded(i, k) \/ GenerationRaised(i)
    /\ \A k \in FailedLearns(i) :
         Trace(i)[k].ok => SuccessKept(i, k) /\ NotRecorded(i, k)

\* ------------------------------------------------------------------------
\* The count of a COUNT query
\* ------------------------------------------------------------------------

\* the names under which the SQL returns its counts: the alias that
\* follows the aggregate
CountAliases(sql) ==
  {sql[i + 2] : i \in {j \in 1..(Len(sql) - 2) :
                         /\ Lower(sql[j]) = "count(*)"
                         /\ Lower(sql[j + 1]) = "as"}}

\* the count that the first row returns is exactly 0
ReturnedCountIsZero ==
  /\ Len(verification.result.data) > 0
  /\ \E c \in 1..Len(verification.result.data[1]) :
        /\ verification.result.data[1][c].col
             \in CountAliases(verification.sql)
        /\ verification.result.data[1][c].val = Number(0)

\* the same for a count whose name has "count" in it
NamedCountIsZero ==
  /\ Len(verification.result.data) > 0
  /\ \E c \in 1..Len(verification.result.data[1]) :
        /\ verification.result.data[1][c].col
             \in CountAliases(verification.sql)
        /\ HasCount(verification.result.data[1][c].col)
        /\ verification.result.data[1][c].val = Number(0)

\* none of the three checks made before the count check fires
NoEarlierCheckFires == ~EmptyHolds /\ ~AllNullsHolds /\ ~ExtremeHolds

\* C35: verify_results returns UNEXPECTED_COUNT with confidence 0.5
\* whenever the SQL has a COUNT aggregate, the question has a count-intent
\* keyword and the returned count is exactly 0, whatever the name or alias
\* of the count column, provided no earlier check fires.
C35_ZeroCountAnyAlias ==
  (/\ Verified
   /\ NoEarlierCheckFires
   /\ is_count_query(verification.sql)
   /\ expects_data(verification.question)
   /\ ReturnedCountIsZero)
    => verification.verdict = VerificationResult(TRUE, 50, UNEXPECTED_COUNT)

\* what the code does: the zero is reported when the name of its column
\* has "count" in it
C35_ZeroCountNamedCount ==
  (/\ Verified
   /\ NoEarlierCheckFires
   /\ is_count_query(verification.sql)
   /\ expects_data(verification.question)
   /\ NamedCountIsZero)
    => verification.verdict = VerificationResult(TRUE, 50, UNEXPECTED_COUNT)

\* ------------------------------------------------------------------------
\* Diagnostics
\* ------------------------------------------------------------------------

\* run_diagnostics has returned
Diagnosed == verification.diagnostics.pc = "done"

\* the diagnostic queries that returned an error or raised
FailedQueries ==
  {k \in 1..Len(verification.diagnostics.executed) :
     verification.diagnostics.executed[k].outcome # "success"}

\* the queries handed to execute_query are the first of the list, in its
\* order
RunInOrder ==
  /\ Len(verification.diagnostics.executed)
       <= Len(verification.diagnostic_queries.list)
  /\ \A k \in 1..Len(verification.diagnostics.executed) :
        verification.diagnostics.executed[k].query
          = verification.diagnostic_queries.list[k]

\* C36: run_diagnostics never propagates a diagnostic failure: when a
\* diagnostic query returns an error or raises, the remaining queries are
\* still run in order and the DiagnosticResult returned has table_exists
\* false and the diagnosis that the table does not exist or is not
\* accessible; with diagnostics disabled no query is executed and the
\* diagnosis is "Diagnostics disabled".
C36_DiagnosticsNeverPropagate ==
  /\ verification.diagnostics.pc # "raised"
  /\ RunInOrder
  /\ (Diagnosed /\ verification.diagnostics.enable_diagnostics) =>
       /\ HasQueries(verification.diagnostic_queries) =>
            Len(verification.diagnostics.executed)
              = Len(verification.diagnostic_queries.list)
       /\ FailedQueries # {} =>
            /\ ~verification.diagnostics.result.table_exists
            /\ verification.diagnostics.result.diagnosis
                 = DiagnosisInaccessible
  /\ (Diagnosed /\ ~verification.diagnostics.enable_diagnostics) =>
       /\ verification.diagnostics.executed = <<>>
       /\ verification.diagnostics.result.diagnosis = DiagnosisDisabled

\* what the code does: a failed query gives the diagnosis of the
\* inaccessible table only when no count query has returned 0
C36_EmptyDiagnosisFirst ==
  /\ verification.diagnostics.pc # "raised"
  /\ RunInOrder
  /\ (Diagnosed /\ verification.diagnostics.enable_diagnostics) =>
       /\ HasQueries(verification.diagnostic_queries) =>
            Len(verification.diagnostics.executed)
              = Len(verification.diagnostic_queries.list)
       /\ FailedQueries # {} =>
            /\ ~verification.diagnostics.result.table_exists
            /\ verification.diagnostics.result.diagnosis =
                 (IF verification.diagnostics.result.table_has_data
                    THEN DiagnosisInaccessible ELSE DiagnosisEmpty)
  /\ (Diagnosed /\ ~verification.diagnostics.enable_diagnostics) =>
       /\ verification.diagnostics.executed = <<>>
       /\ verification.diagnostics.result.diagnosis = DiagnosisDisabled

\* ------------------------------------------------------------------------
\* Overlapping runs
\* ------------------------------------------------------------------------

\* the fixer that lines 260-271 build from the schema handed to the run
OwnFixer(i) ==
  IF inv[i].schema.parsable THEN SchemaAwareFixer(inv[i].schema) ELSE NoFixer

\* the quick fix that fixer computes for the repair round of event k
QuickFixBy(fixer, i, k) ==
  quick_fix(fixer, Trace(i)[k].arg, categorize_error(Trace(i)[k].text),
            Trace(i)[k].text,
            extract_error_context(Trace(i)[k].text,
                                  categorize_error(Trace(i)[k].text)))

\* quickfix is adopted and gives the SQL
AdoptedAs(quickfix, sql) ==
  /\ quickfix.success
  /\ ScoreAtLeast(quickfix.confidence, 7)
  /\ sql = quickfix.fixed_sql

\* the quick fix adopted at event k of run i is the one that fixer gives
ComputedFrom(fixer, i, k) ==
  /\ fixer.present
  /\ AdoptedAs(QuickFixBy(fixer, i, k), Trace(i)[k].sql)

\* C37: when two runs with different schemas overlap, on the same agent
\* too, every quick fix applied in a run is computed from that run's own
\* schema snapshot, never from the other run's.
C37_OwnSchemaSnapshot ==
  \A i \in Runs : \A k \in Adopted(i) : ComputedFrom(OwnFixer(i), i, k)

\* what the code does: the quick fix comes from the snapshot of one of the
\* runs on the agent
C37_SomeSchemaSnapshot ==
  \A i \in Runs : \A k \in Adopted(i) :
     \E j \in Runs : ComputedFrom(OwnFixer(j), i, k)

\* ------------------------------------------------------------------------
\* The handler of a database connection
\* ------------------------------------------------------------------------

\* the calls of the agent whose result the handler has returned
Handled == {i \in Invs : inv[i].handled.returned}

\* the handler reports the error, the number of attempts and the attempts
\* of the agent's result
OutcomePreserved(i) ==
  /\ inv[i].handled.success = inv[i].result.success
  /\ ~inv[i].result.success =>
       inv[i].handled.error = TextValue(inv[i].result.error)
  /\ inv[i].handled.correction_attempts
       = IntValue(inv[i].result.total_attempts)
  /\ inv[i].handled.corrections = ListValue(inv[i].result.attempts)

\* C38: execute_query_with_self_correction preserves the agent's outcome on
\* both of its paths, initial_sql given or generated: when the agent fails
\* the error returned is the agent's final error text, and
\* correction_attempts and corrections report the number and the list of
\* the attempts the agent made.
C38_HandlerPreservesOutcome == \A i \in Handled : OutcomePreserved(i)

\* what the code does: the outcome is preserved when initial_sql is given;
\* on the generated path the error is "Unknown error", correction_attempts
\* is the list of attempts and corrections is empty
C38_PreservedWithInitialSql ==
  \A i \in Handled :
     IF inv[i].mode = "ewr" THEN OutcomePreserved(i)
     ELSE /\ inv[i].handled.success = inv[i].result.success
          /\ ~inv[i].result.success =>
               inv[i].handled.error = TextValue(UnknownError)
          /\ inv[i].handled.correction_attempts
               = ListValue(inv[i].result.attempts)
          /\ inv[i].handled.corrections = ListValue(<<>>)

\* ------------------------------------------------------------------------
\* The cache of the query endpoint
\* ------------------------------------------------------------------------

\* the request has been answered from the cache
AnsweredFromCache ==
  /\ endpoint.request.pc = "done"
  /\ endpoint.response.status = 200
  /\ endpoint.response.cached

\* C39: the cache returns a stored response only for the same question
\* asked against the same database: a question cached while connection A
\* was active and asked again with use_cache once B has become active is
\* not answered with A's cached SQL and results; failed runs are never
\* cached.
C39_CachePerDatabase ==
  /\ (AnsweredFromCache /\ endpoint.request.connection # "None") =>
       /\ endpoint.response.question = endpoint.request.question
       /\ endpoint.response.results = RowsFrom(endpoint.request.connection)
  /\ \A key \in CacheKeys :
        endpoint.cache[key] # NoResponse => endpoint.cache[key].is_valid

\* what the code does: the stored response is returned for the same
\* question and the same database_type of the request, whatever connection
\* is active; failed runs are never cached
C39_CachePerQuestion ==
  /\ AnsweredFromCache =>
       /\ endpoint.request.use_cache
       /\ endpoint.response.question = endpoint.request.question
       /\ endpoint.response.is_valid
       /\ endpoint.response.results.given
  /\ \A key \in CacheKeys :
        endpoint.cache[key] # NoResponse =>
          /\ endpoint.cache[key].is_valid
          /\ endpoint.cache[key].results.given
          /\ key = CacheKey(endpoint.cache[key].question, key[3])

====
